---------------------------- MODULE Spec2Model ----------------------------
(***************************************************************************)
(* TerraInsight: the livability scorer, the alert evaluator and the        *)
(* persistence gateway with the HTTP handlers that use them.               *)
(*                                                                         *)
(* Numbers.  The program computes with IEEE doubles.  Every comparison of  *)
(* the scorer and of the evaluator is against an integer threshold, so a   *)
(* value strictly between two integers behaves like its integer            *)
(* neighbours; inputs are drawn from the integers around every threshold.  *)
(* The scorer's inputs also range over NaN, +Infinity and -Infinity.       *)
(* Weights are kept in percent (0.4 -> 40) and severities as fractions     *)
(* n/d, so that no rounding is introduced by the model.                    *)
(***************************************************************************)
EXTENDS Integers, Sequences, FiniteSets, TLC

VARIABLES
    \* ---- livability scorer (server/services/livabilityCalculator.ts)
    pcScorer,      \* "calc" | "scored" | "done" | "recommended", or
                   \* "classify" | "classified", or "recommend" | "recommended"
    metrics,       \* the LiveabilityMetrics passed to calculateLivabilityScore
    result,        \* the LiveabilityResult returned
    score,         \* the argument of getLivabilityCategory
    category,      \* the category name returned
    recommendations,  \* the recommendations returned
    \* ---- alert evaluator (server/services/alertService.ts)
    pcAlerts,      \* "air" | "water" | "green" | "done": position in generateAlerts
    envData,       \* the EnvironmentalData passed to generateAlerts
    alerts,        \* the InsertEnvironmentalAlert[] built so far
    aiCalls,       \* the calls of the text-generation service, with their outcomes
    \* ---- persistence gateway (server/storage.ts) and HTTP handlers (server/routes.ts)
    airQualityData,       \* the rows of table air_quality_data
    waterSecurityData,    \* the rows of table water_security_data
    greenSpaceData,       \* the rows of table green_space_data
    livabilityScores,     \* the rows of table livability_scores
    environmentalAlerts,  \* the rows of table environmental_alerts
    requests,      \* the handlers in progress, one for each connection
    started,       \* how many handlers that store rows have started
    clock,         \* the time of the server and of the database, in hours
    response,      \* the response just sent, if the last step sent one
    \* ---- data source (server/services/nasaDataService.ts)
    now,           \* the time of the generator's clock, in hours
    month,         \* the month of the generator's clock, 0..11
    fetcher,       \* the fetch method that returned last
    emitted,       \* the readings it returned
    \* ---- a Promise.all in progress
    caller,        \* the operation that issued it, with its arguments
    pending,       \* the sub-operations that have not settled
    settled,       \* the outcome of each sub-operation that has
    order,         \* the sub-operations in the order in which they settled
    joined         \* what the caller got from the await

scorerVars == <<pcScorer, metrics, result, score, category, recommendations>>
alertVars == <<pcAlerts, envData, alerts, aiCalls>>
tables == <<airQualityData, waterSecurityData, greenSpaceData,
            livabilityScores, environmentalAlerts>>
apiVars == <<tables, requests, started, clock, response>>
sourceVars == <<now, month, fetcher, emitted>>
joinVars == <<caller, pending, settled, order, joined>>

\* what a step of the scorer, of the evaluator and of a handler leaves alone
notScorerVars == <<alertVars, apiVars, sourceVars, joinVars>>
notAlertVars == <<scorerVars, apiVars, sourceVars, joinVars>>
notApiVars == <<scorerVars, alertVars, sourceVars, joinVars>>
notSourceVars == <<scorerVars, alertVars, apiVars, joinVars>>

vars == <<pcScorer, metrics, result, score, category, recommendations,
          pcAlerts, envData, alerts, aiCalls,
          airQualityData, waterSecurityData, greenSpaceData,
          livabilityScores, environmentalAlerts,
          requests, started, clock, response,
          now, month, fetcher, emitted,
          caller, pending, settled, order, joined>>

----------------------------------------------------------------------------
(* Bounds of the model *)

\* inputs are drawn from the integers within MaxDelta of every threshold
MaxDelta == 1

\* the longest sequence of readings of one category handed to the evaluator
MaxReadings == 2

----------------------------------------------------------------------------
(* JavaScript numbers *)

Fin(n) == [k |-> "fin", v |-> n]
NaN == [k |-> "nan", v |-> 0]
PosInf == [k |-> "pinf", v |-> 0]
NegInf == [k |-> "ninf", v |-> 0]
NonFinite == {NaN, PosInf, NegInf}

\* x <= c and x >= c for a JavaScript number x and a finite constant c:
\* every comparison with NaN is false
NumLeq(x, c) == (x.k = "fin" /\ x.v <= c) \/ x.k = "ninf"
NumGeq(x, c) == (x.k = "fin" /\ x.v >= c) \/ x.k = "pinf"

----------------------------------------------------------------------------
(* Livability scorer *)

\* the weights, in percent
weights == [airQuality |-> 40, waterSecurity |-> 35, greenSpace |-> 25]

referenceValues ==
    [airQuality |-> [excellent |-> 0, good |-> 50, moderate |-> 100,
                     poor |-> 200, veryPoor |-> 300],
     waterSecurity |-> [excellent |-> 0, good |-> 20, moderate |-> 40,
                        poor |-> 60, veryPoor |-> 80],
     greenSpace |-> [excellent |-> 80, good |-> 60, moderate |-> 40,
                     poor |-> 20, veryPoor |-> 10]]

\* <mutant> the boundaries taken exclusive
normalizeAirQuality_exclusive(aqi) ==
    IF ~NumGeq(aqi, 0) /\ aqi.k # "nan" THEN 100
    ELSE IF ~NumGeq(aqi, 50) /\ aqi.k # "nan" THEN 85
    ELSE IF ~NumGeq(aqi, 100) /\ aqi.k # "nan" THEN 60
    ELSE IF ~NumGeq(aqi, 200) /\ aqi.k # "nan" THEN 35
    ELSE IF ~NumGeq(aqi, 300) /\ aqi.k # "nan" THEN 15
    ELSE 5

\* <mutant> the values of the third and the fourth step exchanged
normalizeAirQuality_swapped(aqi) ==
    IF NumLeq(aqi, referenceValues.airQuality.excellent) THEN 100
    ELSE IF NumLeq(aqi, referenceValues.airQuality.good) THEN 85
    ELSE IF NumLeq(aqi, referenceValues.airQuality.moderate) THEN 35
    ELSE IF NumLeq(aqi, referenceValues.airQuality.poor) THEN 60
    ELSE IF NumLeq(aqi, referenceValues.airQuality.veryPoor) THEN 15
    ELSE 5

normalizeAirQuality(aqi) ==
    IF NumLeq(aqi, referenceValues.airQuality.excellent) THEN 100
    ELSE IF NumLeq(aqi, referenceValues.airQuality.good) THEN 85
    ELSE IF NumLeq(aqi, referenceValues.airQuality.moderate) THEN 60
    ELSE IF NumLeq(aqi, referenceValues.airQuality.poor) THEN 35
    ELSE IF NumLeq(aqi, referenceValues.airQuality.veryPoor) THEN 15
    ELSE 5

\* <mutant> the values of the second and the third step exchanged
normalizeWaterSecurity_swapped(stressLevel) ==
    IF NumLeq(stressLevel, referenceValues.waterSecurity.excellent) THEN 100
    ELSE IF NumLeq(stressLevel, referenceValues.waterSecurity.good) THEN 60
    ELSE IF NumLeq(stressLevel, referenceValues.waterSecurity.moderate) THEN 80
    ELSE IF NumLeq(stressLevel, referenceValues.waterSecurity.poor) THEN 40
    ELSE IF NumLeq(stressLevel, referenceValues.waterSecurity.veryPoor) THEN 20
    ELSE 10

normalizeWaterSecurity(stressLevel) ==
    IF NumLeq(stressLevel, referenceValues.waterSecurity.excellent) THEN 100
    ELSE IF NumLeq(stressLevel, referenceValues.waterSecurity.good) THEN 80
    ELSE IF NumLeq(stressLevel, referenceValues.waterSecurity.moderate) THEN 60
    ELSE IF NumLeq(stressLevel, referenceValues.waterSecurity.poor) THEN 40
    ELSE IF NumLeq(stressLevel, referenceValues.waterSecurity.veryPoor) THEN 20
    ELSE 10

\* <mutant> a coverage above 100 taken as no coverage
normalizeGreenSpace_rangeChecked(coverage) ==
    IF NumGeq(coverage, 101) THEN 10
    ELSE IF NumGeq(coverage, referenceValues.greenSpace.excellent) THEN 100
    ELSE IF NumGeq(coverage, referenceValues.greenSpace.good) THEN 80
    ELSE IF NumGeq(coverage, referenceValues.greenSpace.moderate) THEN 60
    ELSE IF NumGeq(coverage, referenceValues.greenSpace.poor) THEN 40
    ELSE IF NumGeq(coverage, referenceValues.greenSpace.veryPoor) THEN 20
    ELSE 10

normalizeGreenSpace(coverage) ==
    IF NumGeq(coverage, referenceValues.greenSpace.excellent) THEN 100
    ELSE IF NumGeq(coverage, referenceValues.greenSpace.good) THEN 80
    ELSE IF NumGeq(coverage, referenceValues.greenSpace.moderate) THEN 60
    ELSE IF NumGeq(coverage, referenceValues.greenSpace.poor) THEN 40
    ELSE IF NumGeq(coverage, referenceValues.greenSpace.veryPoor) THEN 20
    ELSE 10

\* Math.round of p/100 for an integer p >= 0: halves round up.  The doubles
\* the code adds (score * 0.4 + score * 0.35 + score * 0.25) round to the
\* same integer as the exact sum for all 216 combinations of sub-scores.
\* <mutant> Math.floor in place of Math.round
MathRoundPercent_floor(p) == p \div 100

MathRoundPercent(p) == (p + 50) \div 100

\* contributions are kept in hundredths (score * weight-in-percent)
calculateLivabilityScore(m) ==
    LET airQualityScore == normalizeAirQuality(m.airQuality)
        waterSecurityScore == normalizeWaterSecurity(m.waterSecurity)
        greenSpaceScore == normalizeGreenSpace(m.greenSpace)
        airQualityContribution == airQualityScore * weights.airQuality
        waterSecurityContribution == waterSecurityScore * weights.waterSecurity
        greenSpaceContribution == greenSpaceScore * weights.greenSpace
    IN  [airQualityScore |-> airQualityScore,
         waterSecurityScore |-> waterSecurityScore,
         greenSpaceScore |-> greenSpaceScore,
         overallScore |-> MathRoundPercent(airQualityContribution
                              + waterSecurityContribution
                              + greenSpaceContribution),
         contribution |-> [airQuality |-> airQualityContribution,
                           waterSecurity |-> waterSecurityContribution,
                           greenSpace |-> greenSpaceContribution]]

\* <mutant> the band boundaries taken exclusive
getLivabilityCategory_exclusive(s) ==
    IF s > 85 THEN "Excellent"
    ELSE IF s > 70 THEN "Good"
    ELSE IF s > 55 THEN "Moderate"
    ELSE IF s > 40 THEN "Poor"
    ELSE "Very Poor"

getLivabilityCategory(s) ==
    IF s >= 85 THEN "Excellent"
    ELSE IF s >= 70 THEN "Good"
    ELSE IF s >= 55 THEN "Moderate"
    ELSE IF s >= 40 THEN "Poor"
    ELSE "Very Poor"

\* the recommendations of the three categories
airQualityRecommendations ==
    <<"Implement traffic reduction measures in high-pollution areas",
      "Increase monitoring of industrial emissions",
      "Promote public transportation and electric vehicle adoption">>
waterSecurityRecommendations ==
    <<"Improve water conservation and efficiency programs",
      "Invest in flood protection infrastructure",
      "Enhance groundwater monitoring and management">>
greenSpaceRecommendations ==
    <<"Expand urban parks and green corridors",
      "Implement green building requirements",
      "Create community gardens and green roofs",
      "Protect existing natural areas from development">>

\* `Priority focus needed on ${weakestFactor.name} improvements`
PriorityFocus(name) ==
    CASE name = "air quality" -> "Priority focus needed on air quality improvements"
      [] name = "water security" ->
            "Priority focus needed on water security improvements"
      [] name = "green space" -> "Priority focus needed on green space improvements"

\* <mutant> the last of the factors with the least score
weakestOf_lastMinimum(factors) ==
    LET step(min, factor) == IF factor.score <= min.score THEN factor ELSE min
    IN  step(step(factors[1], factors[2]), factors[3])

\* factors.reduce((min, factor) => factor.score < min.score ? factor : min)
\* on the three factors
weakestOf(factors) ==
    LET step(min, factor) == IF factor.score < min.score THEN factor ELSE min
    IN  step(step(factors[1], factors[2]), factors[3])

generateRecommendations(r) ==
    LET factors == <<[name |-> "air quality", score |-> r.airQualityScore],
                     [name |-> "water security", score |-> r.waterSecurityScore],
                     [name |-> "green space", score |-> r.greenSpaceScore]>>
        weakestFactor == weakestOf(factors)
    IN  (IF r.airQualityScore < 60 THEN airQualityRecommendations ELSE <<>>)
        \o (IF r.waterSecurityScore < 60 THEN waterSecurityRecommendations ELSE <<>>)
        \o (IF r.greenSpaceScore < 60 THEN greenSpaceRecommendations ELSE <<>>)
        \o (IF weakestFactor.score < 50
            THEN <<PriorityFocus(weakestFactor.name)>> ELSE <<>>)

\* ---- inputs of the scorer
Around(ts) == {t + d : t \in ts, d \in (0 - MaxDelta)..MaxDelta}

AqiInputs == {Fin(n) : n \in Around({0, 50, 100, 200, 300, 500})} \cup NonFinite
StressInputs == {Fin(n) : n \in Around({0, 20, 40, 60, 80, 100})} \cup NonFinite
CoverageInputs == {Fin(n) : n \in Around({0, 10, 20, 40, 50, 60, 80, 100})} \cup NonFinite
MetricInputs == [airQuality : AqiInputs, waterSecurity : StressInputs,
                 greenSpace : CoverageInputs]
ScoreInputs == (0 - MaxDelta)..(100 + MaxDelta)

NoMetrics == [airQuality |-> Fin(0), waterSecurity |-> Fin(0), greenSpace |-> Fin(0)]
NoResult == [airQualityScore |-> 0, waterSecurityScore |-> 0, greenSpaceScore |-> 0,
             overallScore |-> 0,
             contribution |-> [airQuality |-> 0, waterSecurity |-> 0, greenSpace |-> 0]]

\* the sub-scores of the results handed to generateRecommendations directly:
\* those around its thresholds 50 and 60, and one below them
SubScoreInputs == Around({50, 60}) \cup {40}
ResultInputs ==
    {[NoResult EXCEPT !.airQualityScore = a, !.waterSecurityScore = w,
                      !.greenSpaceScore = g] :
        a \in SubScoreInputs, w \in SubScoreInputs, g \in SubScoreInputs}

ScorerIdle ==
    /\ pcScorer = "idle"
    /\ metrics = NoMetrics
    /\ result = NoResult
    /\ score = 0
    /\ category = "none"
    /\ recommendations = <<>>

\* a caller scores a triple of metrics, classifies a score directly, or asks
\* for the recommendations of a result directly
ScorerInit ==
    /\ category = "none"
    /\ recommendations = <<>>
    /\ \/ pcScorer = "calc" /\ metrics \in MetricInputs /\ score = 0
          /\ result = NoResult
       \/ pcScorer = "classify" /\ metrics = NoMetrics /\ score \in ScoreInputs
          /\ result = NoResult
       \/ pcScorer = "recommend" /\ metrics = NoMetrics /\ score = 0
          /\ result \in ResultInputs

\* livabilityCalculator.calculateLivabilityScore(metrics)
CalculateLivabilityScore ==
    /\ pcScorer = "calc"
    /\ result' = calculateLivabilityScore(metrics)
    /\ pcScorer' = "scored"
    /\ UNCHANGED <<metrics, score, category, recommendations, notScorerVars>>

\* routes.ts: category: getLivabilityCategory(livabilityResult.overallScore)
CategoryOfResult ==
    /\ pcScorer = "scored"
    /\ score' = result.overallScore
    /\ category' = getLivabilityCategory(result.overallScore)
    /\ pcScorer' = "done"
    /\ UNCHANGED <<metrics, result, recommendations, notScorerVars>>

\* livabilityCalculator.getLivabilityCategory(score) on any score
GetLivabilityCategory ==
    /\ pcScorer = "classify"
    /\ category' = getLivabilityCategory(score)
    /\ pcScorer' = "classified"
    /\ UNCHANGED <<metrics, result, score, recommendations, notScorerVars>>

\* livabilityCalculator.generateRecommendations(result): on the result of
\* calculateLivabilityScore (routes.ts), or on any result
GenerateRecommendations ==
    /\ pcScorer \in {"done", "recommend"}
    /\ recommendations' = generateRecommendations(result)
    /\ pcScorer' = "recommended"
    /\ UNCHANGED <<metrics, result, score, category, notScorerVars>>

ScorerNext ==
    \/ CalculateLivabilityScore
    \/ CategoryOfResult
    \/ GetLivabilityCategory
    \/ GenerateRecommendations

----------------------------------------------------------------------------
(* Alert evaluator *)

\* an optional column (real, nullable): a value or null
Some(n) == [present |-> TRUE, v |-> n]
Null == [present |-> FALSE, v |-> 0]

\* the truthiness JavaScript's || and && test on a nullable number:
\* null, undefined and 0 are falsy
Truthy(o) == o.present /\ o.v # 0

\* a || b on numbers
OrElse(a, b) == IF a # 0 THEN a ELSE b

thresholds ==
    [airQuality |-> [warning |-> 100, danger |-> 150],
     waterSecurity |-> [warning |-> 60, danger |-> 80],
     greenSpace |-> [warning |-> 30, danger |-> 15],
     floodRisk |-> [warning |-> 40, danger |-> 70]]

\* <mutant> the cap left out
MinHundred_uncapped(n, d) == [n |-> n, d |-> d]

\* Math.min(100, n / d) for d > 0, as a fraction
MinHundred(n, d) == IF n >= 100 * d THEN [n |-> 100, d |-> 1] ELSE [n |-> n, d |-> d]

\* what the text-generation call can do:
\*   "rejects"        create() rejects (network error, API error)
\*   "no_choices"     the response has no choices[0].message: a TypeError
\*   "unparseable"    the content is not JSON: JSON.parse throws
\*   "empty_content"  the content is null or "": '{}' is parsed instead
\*   "other_json"     the content is JSON without the requested fields
\*   "schema_json"    the content is JSON with the requested fields
AIOutcomes == {"rejects", "no_choices", "unparseable", "empty_content",
               "other_json", "schema_json"}
AIThrows == {"rejects", "no_choices", "unparseable"}

\* the try/catch shared by the three generate*Recommendations methods
Recommendations(outcome, static) ==
    IF outcome \in AIThrows THEN static
    ELSE IF outcome = "empty_content" THEN "{}"
    ELSE IF outcome = "other_json" THEN "parsed_other"
    ELSE "parsed_schema"

generateAirQualityRecommendations(outcome) ==
    Recommendations(outcome, "static_immediate_shortTerm_longTerm")

generateWaterSecurityRecommendations(outcome) ==
    Recommendations(outcome, "static_conservation_infrastructure_emergency")

generateGreenSpaceRecommendations(outcome) ==
    Recommendations(outcome, "static_planning_community_policy")

\* context.location || `${latest.latitude.toFixed(3)}, ${latest.longitude.toFixed(3)}`
LocationOf(context, latest) ==
    IF context.location # "" THEN [name |-> context.location, lat |-> 0, lon |-> 0]
    ELSE [name |-> "", lat |-> latest.latitude, lon |-> latest.longitude]

\* <mutant> an alert is actionable only with recommendations of the service
Alert_actionableIfGenerated(type, cat, title, value, severity, recs, context, latest) ==
    [type |-> type, category |-> cat, title |-> title, value |-> value,
     latitude |-> OrElse(context.latitude, latest.latitude),
     longitude |-> OrElse(context.longitude, latest.longitude),
     location |-> LocationOf(context, latest),
     severity |-> severity, isActive |-> TRUE,
     actionable |-> recs \in {"{}", "parsed_other", "parsed_schema"},
     recommendations |-> recs]

\* the fields every alert takes from the context and the latest reading
Alert(type, cat, title, value, severity, recs, context, latest) ==
    [type |-> type, category |-> cat, title |-> title, value |-> value,
     latitude |-> OrElse(context.latitude, latest.latitude),
     longitude |-> OrElse(context.longitude, latest.longitude),
     location |-> LocationOf(context, latest),
     severity |-> severity, isActive |-> TRUE, actionable |-> TRUE,
     recommendations |-> recs]

AICall(cat, severity, outcome) ==
    [category |-> cat, severity |-> severity, outcome |-> outcome]

\* <mutant> a call that has thrown is made a second time
CompletionsCreate_retried(cat, severity, outcome) ==
    IF outcome \in AIThrows
    THEN <<AICall(cat, severity, outcome), AICall(cat, severity, outcome)>>
    ELSE <<AICall(cat, severity, outcome)>>

\* the calls of the service one generate*Recommendations makes: the one
\* await openai.chat.completions.create(...) of its try block
CompletionsCreate(cat, severity, outcome) == <<AICall(cat, severity, outcome)>>

\* <mutant> a rise of exactly 50 counted as rapid deterioration
RapidDeterioration_inclusive(airData) ==
    Len(airData) >= 2 /\ airData[1].aqi - airData[2].aqi >= 50

\* airData.length >= 2 and latest.aqi - previous.aqi > 50
RapidDeterioration(airData) ==
    Len(airData) >= 2 /\ airData[1].aqi - airData[2].aqi > 50

\* <mutant> the flood-risk rule as an else-branch of the water-stress rule
FloodRiskType_onlyWithoutStress(latest) ==
    IF latest.waterStressLevel >= thresholds.waterSecurity.warning THEN "none"
    ELSE IF Truthy(latest.floodRisk)
           /\ latest.floodRisk.v >= thresholds.floodRisk.danger THEN "danger"
    ELSE IF Truthy(latest.floodRisk)
           /\ latest.floodRisk.v >= thresholds.floodRisk.warning THEN "warning"
    ELSE "none"

\* the branch the flood-risk rule takes
FloodRiskType(latest) ==
    IF Truthy(latest.floodRisk)
           /\ latest.floodRisk.v >= thresholds.floodRisk.danger THEN "danger"
    ELSE IF Truthy(latest.floodRisk)
           /\ latest.floodRisk.v >= thresholds.floodRisk.warning THEN "warning"
    ELSE "none"

\* each analyze* returns its alerts and the text-generation calls it made
analyzeAirQuality(airData, context, outcome) ==
    LET latest == airData[1]
        level ==
            IF latest.aqi >= thresholds.airQuality.danger
            THEN [alerts |-> <<Alert("danger", "air_quality",
                        "Unhealthy Air Quality Detected", latest.aqi,
                        MinHundred(latest.aqi * 70, thresholds.airQuality.danger),
                        generateAirQualityRecommendations(outcome),
                        context, latest)>>,
                  calls |-> CompletionsCreate("air_quality", "danger", outcome)]
            ELSE IF latest.aqi >= thresholds.airQuality.warning
            THEN [alerts |-> <<Alert("warning", "air_quality",
                        "Moderate Air Quality Alert", latest.aqi,
                        MinHundred(latest.aqi * 50, thresholds.airQuality.warning),
                        generateAirQualityRecommendations(outcome),
                        context, latest)>>,
                  calls |-> CompletionsCreate("air_quality", "warning", outcome)]
            ELSE [alerts |-> <<>>, calls |-> <<>>]
        aqiChange == IF Len(airData) >= 2 THEN latest.aqi - airData[2].aqi ELSE 0
        rapid ==
            IF RapidDeterioration(airData)
            THEN <<Alert("warning", "air_quality",
                        "Rapid Air Quality Deterioration", aqiChange,
                        MinHundred(aqiChange * 40, 50),
                        "static_trend", context, latest)>>
            ELSE <<>>
    IN  [alerts |-> level.alerts \o rapid, calls |-> level.calls]

analyzeWaterSecurity(waterData, context, outcome) ==
    LET latest == waterData[1]
        stress ==
            IF latest.waterStressLevel >= thresholds.waterSecurity.danger
            THEN [alerts |-> <<Alert("danger", "water_security",
                        "Critical Water Stress Level", latest.waterStressLevel,
                        MinHundred(latest.waterStressLevel * 80, 100),
                        generateWaterSecurityRecommendations(outcome),
                        context, latest)>>,
                  calls |-> CompletionsCreate("water_security", "danger", outcome)]
            ELSE IF latest.waterStressLevel >= thresholds.waterSecurity.warning
            THEN [alerts |-> <<Alert("warning", "water_security",
                        "Elevated Water Stress", latest.waterStressLevel,
                        MinHundred(latest.waterStressLevel * 60, 100),
                        generateWaterSecurityRecommendations(outcome),
                        context, latest)>>,
                  calls |-> CompletionsCreate("water_security", "warning", outcome)]
            ELSE [alerts |-> <<>>, calls |-> <<>>]
        flood ==
            IF FloodRiskType(latest) = "danger"
            THEN <<Alert("danger", "water_security",
                        "High Flood Risk Alert", latest.floodRisk.v,
                        MinHundred(latest.floodRisk.v * 75, 100),
                        "static_flood_emergency", context, latest)>>
            ELSE IF FloodRiskType(latest) = "warning"
            THEN <<Alert("warning", "water_security",
                        "Moderate Flood Risk", latest.floodRisk.v,
                        MinHundred(latest.floodRisk.v * 50, 100),
                        "static_flood_preparedness", context, latest)>>
            ELSE <<>>
    IN  [alerts |-> stress.alerts \o flood, calls |-> stress.calls]

\* latest.vegetationCoverage || (latest.ndvi * 100); ndvi is kept in
\* hundredths, so that ndvi * 100 is the integer (ndvi * 100) \div 100
VegCoverage(latest) ==
    IF Truthy(latest.vegetationCoverage) THEN latest.vegetationCoverage.v
    ELSE (latest.ndvi * 100) \div 100

analyzeGreenSpace(greenData, context, outcome) ==
    LET latest == greenData[1]
        vegCoverage == VegCoverage(latest)
    IN  IF vegCoverage <= thresholds.greenSpace.danger
        THEN [alerts |-> <<Alert("danger", "green_space",
                    "Critical Green Space Deficiency", vegCoverage,
                    MinHundred((thresholds.greenSpace.danger - vegCoverage) * 70,
                               thresholds.greenSpace.danger),
                    generateGreenSpaceRecommendations(outcome),
                    context, latest)>>,
              calls |-> CompletionsCreate("green_space", "danger", outcome)]
        ELSE IF vegCoverage <= thresholds.greenSpace.warning
        THEN [alerts |-> <<Alert("warning", "green_space",
                    "Low Green Space Coverage", vegCoverage,
                    MinHundred((thresholds.greenSpace.warning - vegCoverage) * 50,
                               thresholds.greenSpace.warning),
                    generateGreenSpaceRecommendations(outcome),
                    context, latest)>>,
              calls |-> CompletionsCreate("green_space", "warning", outcome)]
        ELSE [alerts |-> <<>>, calls |-> <<>>]

NoAnalysis == [alerts |-> <<>>, calls |-> <<>>]

\* ---- inputs of the evaluator
AirReading(aqi) == [latitude |-> 4, longitude |-> 6, aqi |-> aqi]
WaterReading(stress, flood) ==
    [latitude |-> 4, longitude |-> 6, waterStressLevel |-> stress, floodRisk |-> flood]
GreenReading(ndvi, coverage) ==
    [latitude |-> 4, longitude |-> 6, ndvi |-> ndvi, vegetationCoverage |-> coverage]

\* up to n older readings, which no rule looks at
OlderAir(n) == {[i \in 1..k |-> AirReading(40)] : k \in 0..n}
OlderWater(n) == {[i \in 1..k |-> WaterReading(30, Null)] : k \in 0..n}
OlderGreen(n) == {[i \in 1..k |-> GreenReading(50, Some(50))] : k \in 0..n}

AqiReadings == Around({100, 150}) \cup {50, 90, 109, 110, 160, 215, 600}
StressReadings == Around({60, 80}) \cup {0 - 5, 0, 85, 100, 130}
FloodReadings == {Null} \cup {Some(n) : n \in Around({40, 70}) \cup {0, 75, 100, 140}}
NdviReadings == Around({15, 30}) \cup {0 - 100, 0, 10, 50, 100}
CoverageReadings ==
    {Null} \cup {Some(n) : n \in Around({15, 30}) \cup {0 - 5, 0, 10, 50, 100}}

AirSeqs ==
    {<<>>} \cup {<<AirReading(a)>> : a \in AqiReadings}
      \cup {<<AirReading(a), AirReading(b)>> \o t :
               a \in AqiReadings, b \in AqiReadings, t \in OlderAir(MaxReadings - 2)}
WaterSeqs ==
    {<<>>} \cup {<<WaterReading(w, f)>> \o t :
               w \in StressReadings, f \in FloodReadings, t \in OlderWater(MaxReadings - 1)}
GreenSeqs ==
    {<<>>} \cup {<<GreenReading(n, c)>> \o t :
               n \in NdviReadings, c \in CoverageReadings, t \in OlderGreen(MaxReadings - 1)}

FewAirSeqs == {<<>>, <<AirReading(160), AirReading(90)>>}
FewWaterSeqs == {<<>>, <<WaterReading(85, Some(75))>>}
FewGreenSeqs == {<<>>, <<GreenReading(10, Null)>>}

\* the context the route passes, with and without a location label; latitude
\* and longitude 0 are the falsy coordinates of context.latitude || ...
Contexts == {[location |-> "Site", latitude |-> 5, longitude |-> 7],
             [location |-> "", latitude |-> 0, longitude |-> 0]}

\* one category ranges over all its readings, the other two over a few
EnvDataInputs ==
    {[airQuality |-> a, waterSecurity |-> w, greenSpace |-> g, context |-> c] :
        a \in AirSeqs, w \in FewWaterSeqs, g \in FewGreenSeqs, c \in Contexts}
    \cup
    {[airQuality |-> a, waterSecurity |-> w, greenSpace |-> g, context |-> c] :
        a \in FewAirSeqs, w \in WaterSeqs, g \in FewGreenSeqs, c \in Contexts}
    \cup
    {[airQuality |-> a, waterSecurity |-> w, greenSpace |-> g, context |-> c] :
        a \in FewAirSeqs, w \in FewWaterSeqs, g \in GreenSeqs, c \in Contexts}

NoEnvData == [airQuality |-> <<>>, waterSecurity |-> <<>>, greenSpace |-> <<>>,
              context |-> [location |-> "", latitude |-> 0, longitude |-> 0]]

AlertsIdle ==
    /\ pcAlerts = "idle"
    /\ envData = NoEnvData
    /\ alerts = <<>>
    /\ aiCalls = <<>>

AlertsInit ==
    /\ pcAlerts = "air"
    /\ envData \in EnvDataInputs
    /\ alerts = <<>>
    /\ aiCalls = <<>>

\* generateAlerts, one step for each awaited analysis; outcome is what the
\* text-generation service does if the analysis calls it

\* if (data.airQuality && data.airQuality.length > 0) await analyzeAirQuality
AnalyzeAirQuality(outcome) ==
    /\ pcAlerts = "air"
    /\ LET r == IF Len(envData.airQuality) > 0
                THEN analyzeAirQuality(envData.airQuality, envData.context, outcome)
                ELSE NoAnalysis
       IN  alerts' = alerts \o r.alerts /\ aiCalls' = aiCalls \o r.calls
    /\ pcAlerts' = "water"
    /\ UNCHANGED <<envData, notAlertVars>>

\* if (data.waterSecurity && data.waterSecurity.length > 0) await analyzeWaterSecurity
AnalyzeWaterSecurity(outcome) ==
    /\ pcAlerts = "water"
    /\ LET r == IF Len(envData.waterSecurity) > 0
                THEN analyzeWaterSecurity(envData.waterSecurity, envData.context, outcome)
                ELSE NoAnalysis
       IN  alerts' = alerts \o r.alerts /\ aiCalls' = aiCalls \o r.calls
    /\ pcAlerts' = "green"
    /\ UNCHANGED <<envData, notAlertVars>>

\* if (data.greenSpace && data.greenSpace.length > 0) await analyzeGreenSpace;
\* return alerts
AnalyzeGreenSpace(outcome) ==
    /\ pcAlerts = "green"
    /\ LET r == IF Len(envData.greenSpace) > 0
                THEN analyzeGreenSpace(envData.greenSpace, envData.context, outcome)
                ELSE NoAnalysis
       IN  alerts' = alerts \o r.alerts /\ aiCalls' = aiCalls \o r.calls
    /\ pcAlerts' = "done"
    /\ UNCHANGED <<envData, notAlertVars>>

AlertsNext ==
    \E outcome \in AIOutcomes :
        \/ AnalyzeAirQuality(outcome)
        \/ AnalyzeWaterSecurity(outcome)
        \/ AnalyzeGreenSpace(outcome)

----------------------------------------------------------------------------
(* The persistence gateway (server/storage.ts) *)

(* Coordinates are kept in hundredths of a degree and times in hours.  A   *)
(* handler takes far less than an hour, so the clock moves between         *)
(* handlers, and the rows stored within one hour are ordered as they were   *)
(* stored by handlers that run one after the other.                        *)

\* the handlers that can be in progress at once
MaxRequests == 2

\* the handlers, and the callers of the gateway, that store rows, over a
\* whole run
MaxStarted == 2

\* radius: number = 0.1, in hundredths of a degree
DefaultRadius == 10

\* db.insert(table).values(data).returning(): the row as stored, with the
\* id and the timestamp the database gives it (id: gen_random_uuid(),
\* timestamp: now()); ids are unique, here the handler's number and the
\* position of the row among the rows it stores
Returning(data, id) ==
    [f \in DOMAIN data \cup {"id", "timestamp"} |->
        IF f = "id" THEN id ELSE IF f = "timestamp" THEN clock ELSE data[f]]

\* the row an insert at time t has stored
StoredRow(data, id, t) ==
    [f \in DOMAIN data \cup {"id", "timestamp"} |->
        IF f = "id" THEN id ELSE IF f = "timestamp" THEN t ELSE data[f]]

\* <mutant> an insert that replaces the stored readings of the same place
insertAirQualityData_upsert(row) ==
    {r \in airQualityData :
        <<r.latitude, r.longitude>> # <<row.latitude, row.longitude>>}
    \cup {row}

\* the table after the insert
insertAirQualityData(row) == airQualityData \cup {row}
insertWaterSecurityData(row) == waterSecurityData \cup {row}
insertGreenSpaceData(row) == greenSpaceData \cup {row}
insertLivabilityScore(row) == livabilityScores \cup {row}
insertEnvironmentalAlert(row) == environmentalAlerts \cup {row}

\* the rows of a table inside the box
\* latitude in [lat - radius, lat + radius], longitude in [lon - radius, lon + radius]
InBox(table, lat, lon, radius) ==
    {r \in table : /\ r.latitude >= lat - radius
                   /\ r.latitude <= lat + radius
                   /\ r.longitude >= lon - radius
                   /\ r.longitude <= lon + radius}

\* the row stored last among rows: the one with the latest timestamp and,
\* within one hour, of the latest handler and the latest position in it
Latest(rows) ==
    CHOOSE r \in rows :
        \A y \in rows :
            \/ r.timestamp > y.timestamp
            \/ r.timestamp = y.timestamp /\ r.id[1] > y.id[1]
            \/ r.timestamp = y.timestamp /\ r.id[1] = y.id[1] /\ r.id[2] >= y.id[2]

\* orderBy(desc(timestamp)): the rows with the latest first
RECURSIVE OrderByDescTimestamp(_)
OrderByDescTimestamp(rows) ==
    IF rows = {} THEN <<>>
    ELSE LET latest == Latest(rows)
         IN  <<latest>> \o OrderByDescTimestamp(rows \ {latest})

getAirQualityDataByLocation(lat, lon, radius) ==
    OrderByDescTimestamp(InBox(airQualityData, lat, lon, radius))
getWaterSecurityDataByLocation(lat, lon, radius) ==
    OrderByDescTimestamp(InBox(waterSecurityData, lat, lon, radius))
getGreenSpaceDataByLocation(lat, lon, radius) ==
    OrderByDescTimestamp(InBox(greenSpaceData, lat, lon, radius))

\* <mutant> a filter that drops the readings of exactly the cutoff time
RECURSIVE Since_strict(_, _)
Since_strict(rows, cutoffTime) ==
    IF rows = <<>> THEN <<>>
    ELSE IF Head(rows).timestamp > cutoffTime
         THEN <<Head(rows)>> \o Since_strict(Tail(rows), cutoffTime)
         ELSE Since_strict(Tail(rows), cutoffTime)

\* d => new Date(d.timestamp) >= cutoffTime, keeping the order
RECURSIVE Since(_, _)
Since(rows, cutoffTime) ==
    IF rows = <<>> THEN <<>>
    ELSE IF Head(rows).timestamp >= cutoffTime
         THEN <<Head(rows)>> \o Since(Tail(rows), cutoffTime)
         ELSE Since(Tail(rows), cutoffTime)

\* a.severity > b.severity and a.severity = b.severity, on fractions n/d
SeverityGreater(a, b) == a.severity.n * b.severity.d > b.severity.n * a.severity.d
SeverityEqual(a, b) == a.severity.n * b.severity.d = b.severity.n * a.severity.d

\* the first of rows by severity descending, then timestamp descending (then
\* as Latest orders the rows of one hour)
FirstBySeverity(rows) ==
    Latest({r \in rows : \A y \in rows : ~SeverityGreater(y, r)})

\* orderBy(desc(severity), desc(timestamp))
RECURSIVE OrderByDescSeverity(_)
OrderByDescSeverity(rows) ==
    IF rows = {} THEN <<>>
    ELSE LET first == FirstBySeverity(rows)
         IN  <<first>> \o OrderByDescSeverity(rows \ {first})

\* <mutant> the listing without its order
getActiveAlerts_unordered ==
    OrderByDescTimestamp({a \in environmentalAlerts : a.isActive})

\* where(eq(isActive, true)).orderBy(desc(severity), desc(timestamp))
getActiveAlerts ==
    OrderByDescSeverity({a \in environmentalAlerts : a.isActive})

\* lat - 0.01 .. lat + 0.01, in hundredths of a degree
ScoreRadius == 1

\* <mutant> the latest score within the radius of the reading queries
getLivabilityScoreByLocation_wide(lat, lon) ==
    LET rows == InBox(livabilityScores, lat, lon, DefaultRadius)
    IN  IF rows = {} THEN Null ELSE Some(Latest(rows))

\* orderBy(desc(timestamp)).limit(1), and `score || undefined`
getLivabilityScoreByLocation(lat, lon) ==
    LET rows == InBox(livabilityScores, lat, lon, ScoreRadius)
    IN  IF rows = {} THEN Null ELSE Some(Latest(rows))

\* <mutant> the three location queries without the filter on the time
getRecentEnvironmentalData_allTime(lat, lon, hours) ==
    [airQuality |-> getAirQualityDataByLocation(lat, lon, DefaultRadius),
     waterSecurity |-> getWaterSecurityDataByLocation(lat, lon, DefaultRadius),
     greenSpace |-> getGreenSpaceDataByLocation(lat, lon, DefaultRadius)]

\* the three location queries with the default radius, each filtered to the
\* last `hours` hours
getRecentEnvironmentalData(lat, lon, hours) ==
    LET cutoffTime == clock - hours
    IN  [airQuality |->
            Since(getAirQualityDataByLocation(lat, lon, DefaultRadius), cutoffTime),
         waterSecurity |->
            Since(getWaterSecurityDataByLocation(lat, lon, DefaultRadius), cutoffTime),
         greenSpace |->
            Since(getGreenSpaceDataByLocation(lat, lon, DefaultRadius), cutoffTime)]

----------------------------------------------------------------------------
(* The data source (server/services/nasaDataService.ts) *)

\* the readings are simulated from the place and the time of day; the model
\* draws them from two conditions of a place
Conditions == {"fair", "poor"}

\* for (let i = 0; i < 12; i++)
TempoHours == 12

fetchAuraOMIData(lat, lon, cond) ==
    <<[latitude |-> lat, longitude |-> lon,
       aqi |-> IF cond = "fair" THEN 40 ELSE 160, source |-> "nasa_omi"]>>

\* hourly readings, only inside lat 25..70, lon -180..-40
fetchTEMPOData(lat, lon, cond) ==
    IF lat >= 2500 /\ lat <= 7000 /\ lon >= 0 - 18000 /\ lon <= 0 - 4000
    THEN [i \in 1..TempoHours |->
            [latitude |-> lat, longitude |-> lon,
             aqi |-> IF cond = "fair" THEN 45 ELSE 155, source |-> "nasa_tempo"]]
    ELSE <<>>

fetchGRACEData(lat, lon, cond) ==
    <<[latitude |-> lat, longitude |-> lon,
       waterStressLevel |-> IF cond = "fair" THEN 30 ELSE 85,
       floodRisk |-> IF cond = "fair" THEN Some(20) ELSE Some(75),
       source |-> "nasa_grace"]>>

fetchSWOTData(lat, lon, cond) ==
    <<[latitude |-> lat, longitude |-> lon,
       waterStressLevel |-> IF cond = "fair" THEN 25 ELSE 70,
       floodRisk |-> IF cond = "fair" THEN Some(10) ELSE Some(45),
       source |-> "nasa_swot"]>>

fetchLandsatData(lat, lon, cond) ==
    <<[latitude |-> lat, longitude |-> lon,
       ndvi |-> IF cond = "fair" THEN 60 ELSE 10,
       vegetationCoverage |-> IF cond = "fair" THEN Some(75) ELSE Some(12),
       source |-> "nasa_landsat"]>>

fetchMODISData(lat, lon, cond) ==
    <<[latitude |-> lat, longitude |-> lon,
       ndvi |-> IF cond = "fair" THEN 55 ELSE 20,
       vegetationCoverage |-> IF cond = "fair" THEN Some(70) ELSE Some(25),
       source |-> "nasa_modis"]>>

fetchAllEnvironmentalData(lat, lon, cond) ==
    [airQuality |-> fetchAuraOMIData(lat, lon, cond) \o fetchTEMPOData(lat, lon, cond),
     waterSecurity |-> fetchGRACEData(lat, lon, cond) \o fetchSWOTData(lat, lon, cond),
     greenSpace |-> fetchLandsatData(lat, lon, cond) \o fetchMODISData(lat, lon, cond)]

----------------------------------------------------------------------------
(* The simulation of the data source (nasaDataService.ts, lines 222-408)  *)
(*                                                                         *)
(* Every Math.random() is a draw in hundredths, 0..99.  A value v of the   *)
(* program is kept as the integer v * 100 for the air-quality index, the   *)
(* water figures and the coverage, and as v * 10000 for the vegetation     *)
(* index, so that every product of a draw with a coefficient of the code   *)
(* is exact.                                                               *)

\* the values of Math.random(): the least, the middle and the greatest
Draws == {0, 50, 99}

MathMax(a, b) == IF a >= b THEN a ELSE b
MathMin(a, b) == IF a <= b THEN a ELSE b

\* <mutant> the box without its edges
isNorthAmerica_exclusive(lat, lon) ==
    lat > 2500 /\ lat < 7000 /\ lon > 0 - 18000 /\ lon < 0 - 4000

\* const isNorthAmerica = lat >= 25 && lat <= 70 && lon >= -180 && lon <= -40
isNorthAmerica(lat, lon) ==
    lat >= 2500 /\ lat <= 7000 /\ lon >= 0 - 18000 /\ lon <= 0 - 4000

\* (hour >= 7 && hour <= 9) || (hour >= 17 && hour <= 19)
RushHour(hour) == (hour >= 7 /\ hour <= 9) \/ (hour >= 17 /\ hour <= 19)

\* 30 + urbanFactor + industrialFactor + geographicFactor
calculateBaseAQI(urban, industrial, geographic) ==
    3000 + urban * 15 + industrial * 10 + (geographic * 8 - 400)

getTimeBasedVariation(hour, d) ==
    IF RushHour(hour) THEN d * 20 + 1000 ELSE d * 10 - 500

\* the cities of getLocationFactor, to the hundredth of a degree
cities ==
    {[lat |-> 3777, lon |-> 0 - 12242, offset |-> 15],
     [lat |-> 3405, lon |-> 0 - 11824, offset |-> 35],
     [lat |-> 4071, lon |-> 0 - 7401, offset |-> 25],
     [lat |-> 4188, lon |-> 0 - 8763, offset |-> 20]}

\* city.offset * Math.exp(-distance * 10) of the closest city: the offset at
\* the city itself; a degree away the decay has taken it below a hundredth
getLocationFactor(lat, lon) ==
    IF \E city \in cities : city.lat = lat /\ city.lon = lon
    THEN (CHOOSE city \in cities : city.lat = lat /\ city.lon = lon).offset * 100
    ELSE 0

getHourlyVariation(hour, d) ==
    IF RushHour(hour) THEN d * 25 + 1000
    ELSE IF hour >= 22 \/ hour <= 5 THEN d * 5 - 1000
    ELSE d * 10 - 500

\* Math.max(0, Math.min(500, baseAQI + hourlyVariation))
calculateHourlyAQI(hour, urban, industrial, geographic, d) ==
    MathMax(0, MathMin(50000,
        calculateBaseAQI(urban, industrial, geographic) + getHourlyVariation(hour, d)))

\* Math.random() * 200 - 100
simulateGroundwaterAnomaly(d) == d * 200 - 10000

calculateWaterStress(groundwaterAnomaly, d) ==
    LET baseStress == d * 40 + 2000
        anomalyFactor == IF groundwaterAnomaly < 0
                         THEN (0 - groundwaterAnomaly) \div 2
                         ELSE 0 - (groundwaterAnomaly \div 4)
    IN  MathMax(0, MathMin(10000, baseStress + anomalyFactor))

\* Math.random() * 30 + 10
getTerrainFloodRisk(d) == d * 30 + 1000

calculateFloodRisk(groundwaterAnomaly, terrain) ==
    LET waterFactor == IF groundwaterAnomaly > 5000
                       THEN groundwaterAnomaly \div 2 ELSE 0
    IN  MathMax(0, MathMin(10000, getTerrainFloodRisk(terrain) + waterFactor))

\* Math.random() * 10 - 5, in metres
simulateSurfaceWaterLevel(d) == d * 10 - 500

calculateFloodRiskFromSurfaceWater(waterLevel, terrain) ==
    LET waterFactor == IF waterLevel > 0 THEN waterLevel * 10 ELSE 0
    IN  MathMax(0, MathMin(10000, getTerrainFloodRisk(terrain) + waterFactor))

calculateWaterStressFromSurface(waterLevel, d) ==
    IF waterLevel < 0 - 200 THEN d * 30 + 5000
    ELSE IF waterLevel > 200 THEN d * 20 + 1000
    ELSE d * 40 + 3000

\* the seasons of the northern hemisphere, by new Date().getMonth()
getSeasonalVegetation(m, d) ==
    IF m >= 2 /\ m <= 5 THEN d * 20
    ELSE IF m >= 6 /\ m <= 8 THEN d * 10 + 1000
    ELSE IF m >= 9 /\ m <= 11 THEN 0 - (d * 20)
    ELSE 0 - (d * 30)

\* Math.random() * 0.3
getUrbanDensity(d) == d * 30

\* Math.max(-1, Math.min(1, baseNDVI - urbanFactor + seasonalFactor))
calculateNDVI(m, base, urban, seasonal) ==
    LET baseNDVI == base * 60 + 2000
    IN  MathMax(0 - 10000, MathMin(10000,
            baseNDVI - getUrbanDensity(urban) + getSeasonalVegetation(m, seasonal)))

\* this.calculateNDVI(lat, lon) + (Math.random() * 0.1 - 0.05)
calculateMODISNDVI(m, base, urban, seasonal, jitter) ==
    calculateNDVI(m, base, urban, seasonal) + (jitter * 10 - 500)

calculateVegetationCoverage(ndvi, d) ==
    IF ndvi < 1000 THEN d * 5
    ELSE IF ndvi < 3000 THEN d * 25 + 500
    ELSE IF ndvi < 6000 THEN d * 40 + 3000
    ELSE d * 30 + 7000

classifyGreenSpace(ndvi) ==
    IF ndvi < 2000 THEN "urban_sparse"
    ELSE IF ndvi < 4000 THEN "urban_green"
    ELSE IF ndvi < 6000 THEN "park"
    ELSE "forest"

\* new Date().getHours()
getHours(t) == t % 24

\* timestamp = new Date(); timestamp.setHours(hour, 0, 0, 0): the given hour
\* of the day of t
setHours(t, hour) == (t - getHours(t)) + hour

\* the places handed to the fetch methods: a city, the corners of the box of
\* TEMPO, the nearest places outside each of its edges, and a place far away
SourcePlaces ==
    {<<3405, 0 - 11824>>, <<2500, 0 - 18000>>, <<7000, 0 - 4000>>,
     <<2499, 0 - 10000>>, <<7001, 0 - 10000>>,
     <<4000, 0 - 3999>>, <<4000, 0 - 18001>>, <<0, 0>>}

\* the times of the generator's clock: every hour of a day of January, and
\* noon of a day of April, of August and of November
SourceTimes ==
    {[month |-> 0, hour |-> h] : h \in 0..23}
        \cup {[month |-> m, hour |-> 12] : m \in {3, 7, 10}}

SourceIdle ==
    /\ now = 0
    /\ month = 0
    /\ fetcher = [name |-> "none", lat |-> 0, lon |-> 0]
    /\ emitted = <<>>

JoinIdle ==
    /\ caller = [kind |-> "none"]
    /\ pending = {}
    /\ settled = <<>>
    /\ order = <<>>
    /\ joined = [state |-> "none"]

\* the clock of the generator is in its second day
SourceInit ==
    /\ \E t \in SourceTimes : now = 24 + t.hour /\ month = t.month
    /\ fetcher = [name |-> "none", lat |-> 0, lon |-> 0]
    /\ emitted = <<>>

\* a fetch method returns its list
Returned(name, lat, lon, list) ==
    /\ fetcher' = [name |-> name, lat |-> lat, lon |-> lon]
    /\ emitted' = list
    /\ UNCHANGED <<now, month, notSourceVars>>

\* fetchAuraOMIData(lat, lon): one reading
FetchAuraOMIData(lat, lon) ==
    /\ fetcher.name = "none"
    /\ \E urban, industrial, geographic, d \in Draws :
        LET baseAQI == calculateBaseAQI(urban, industrial, geographic)
            timeVariation == getTimeBasedVariation(getHours(now), d)
            locationFactor == getLocationFactor(lat, lon)
        IN  Returned("fetchAuraOMIData", lat, lon,
                <<[latitude |-> lat, longitude |-> lon,
                   aqi |-> MathMax(0, MathMin(50000,
                              baseAQI + timeVariation + locationFactor)),
                   source |-> "nasa_omi", timestamp |-> now]>>)

\* the timestamp of the reading of an hour: that hour of today
TempoTimestamp(t, hour) == setHours(t, hour)

\* fetchTEMPOData(lat, lon): the readings of 12 hours, the loop's last
\* first; the draws of one call are the same for every hour
FetchTEMPOData(lat, lon) ==
    /\ fetcher.name = "none"
    /\ \E urban, industrial, geographic, d \in Draws :
        LET currentHour == getHours(now)
            hourOf(i) == (currentHour - i + 24) % 24
            hourlyReadings ==
                [k \in 1..TempoHours |->
                    [latitude |-> lat, longitude |-> lon,
                     aqi |-> calculateHourlyAQI(hourOf(k - 1), urban, industrial,
                                                geographic, d),
                     source |-> "nasa_tempo",
                     timestamp |-> TempoTimestamp(now, hourOf(k - 1))]]
            reverse == [k \in 1..TempoHours |-> hourlyReadings[TempoHours + 1 - k]]
        IN  Returned("fetchTEMPOData", lat, lon,
                IF isNorthAmerica(lat, lon) THEN reverse ELSE <<>>)

\* fetchGRACEData(lat, lon): one reading
FetchGRACEData(lat, lon) ==
    /\ fetcher.name = "none"
    /\ \E anomaly, stress, terrain \in Draws :
        LET groundwaterAnomaly == simulateGroundwaterAnomaly(anomaly)
        IN  Returned("fetchGRACEData", lat, lon,
                <<[latitude |-> lat, longitude |-> lon,
                   waterStressLevel |->
                       calculateWaterStress(groundwaterAnomaly, stress),
                   floodRisk |-> calculateFloodRisk(groundwaterAnomaly, terrain),
                   source |-> "nasa_grace", timestamp |-> now]>>)

\* fetchSWOTData(lat, lon): one reading
FetchSWOTData(lat, lon) ==
    /\ fetcher.name = "none"
    /\ \E level, stress, terrain \in Draws :
        LET surfaceWaterLevel == simulateSurfaceWaterLevel(level)
        IN  Returned("fetchSWOTData", lat, lon,
                <<[latitude |-> lat, longitude |-> lon,
                   waterStressLevel |->
                       calculateWaterStressFromSurface(surfaceWaterLevel, stress),
                   floodRisk |->
                       calculateFloodRiskFromSurfaceWater(surfaceWaterLevel, terrain),
                   source |-> "nasa_swot", timestamp |-> now]>>)

\* fetchLandsatData(lat, lon): one reading
FetchLandsatData(lat, lon) ==
    /\ fetcher.name = "none"
    /\ \E base, urban, seasonal, coverage \in Draws :
        LET ndvi == calculateNDVI(month, base, urban, seasonal)
        IN  Returned("fetchLandsatData", lat, lon,
                <<[latitude |-> lat, longitude |-> lon, ndvi |-> ndvi,
                   vegetationCoverage |->
                       calculateVegetationCoverage(ndvi, coverage),
                   greenSpaceType |-> classifyGreenSpace(ndvi),
                   source |-> "nasa_landsat", timestamp |-> now]>>)

\* fetchMODISData(lat, lon): one reading
FetchMODISData(lat, lon) ==
    /\ fetcher.name = "none"
    /\ \E base, urban, seasonal, jitter, coverage \in Draws :
        LET ndvi == calculateMODISNDVI(month, base, urban, seasonal, jitter)
        IN  Returned("fetchMODISData", lat, lon,
                <<[latitude |-> lat, longitude |-> lon, ndvi |-> ndvi,
                   vegetationCoverage |->
                       calculateVegetationCoverage(ndvi, coverage),
                   source |-> "nasa_modis", timestamp |-> now]>>)

\* one call of one fetch method
SourceNext ==
    \E p \in SourcePlaces :
        \/ FetchAuraOMIData(p[1], p[2])
        \/ FetchTEMPOData(p[1], p[2])
        \/ FetchGRACEData(p[1], p[2])
        \/ FetchSWOTData(p[1], p[2])
        \/ FetchLandsatData(p[1], p[2])
        \/ FetchMODISData(p[1], p[2])

----------------------------------------------------------------------------
(* The HTTP handlers (server/routes.ts) *)

\* the places of the requests: the second is on the edge of the default box
\* around the first, the third is outside it
Places == {<<0, 0>>, <<10, 0>>, <<0, 11>>}

\* the times at which a handler can run
ClockValues == {0, 6}

\* the values of ?radius= : absent, and parsed to 0, 0.01 and -0.1
RadiusParams == {Null, Some(0), Some(1), Some(0 - 10)}

\* a handler in progress: the rows it still has to store and those it stored
Request(kind, lat, lon, serial, todo) ==
    [kind |-> kind, lat |-> lat, lon |-> lon, serial |-> serial,
     todo |-> todo, stored |-> <<>>]

Response(kind, status, lat, lon, radius, body) ==
    [kind |-> kind, status |-> status, lat |-> lat, lon |-> lon,
     radius |-> radius, body |-> body, path |-> <<>>]

NoResponse == Response("none", 0, 0, 0, 0, <<>>)

\* data to store in a table
Item(table, data) == [table |-> table, data |-> data]
ItemsOf(table, readings) == [i \in 1..Len(readings) |-> Item(table, readings[i])]

\* req.query.location || `${lat.toFixed(3)}, ${lon.toFixed(3)}`: the label
\* of the place (the model's requests carry no location parameter)
LocationLabel(lat, lon) == "label"

ApiIdle ==
    /\ airQualityData = {}
    /\ waterSecurityData = {}
    /\ greenSpaceData = {}
    /\ livabilityScores = {}
    /\ environmentalAlerts = {}
    /\ requests = {}
    /\ started = 0
    /\ clock = 0
    /\ response = NoResponse

\* the server has started on an empty database
ApiInit == ApiIdle

\* the table a stored row goes to; the other tables keep their rows
StoreIn(table, row) ==
    /\ airQualityData' = IF table = "airQualityData"
                         THEN insertAirQualityData(row) ELSE airQualityData
    /\ waterSecurityData' = IF table = "waterSecurityData"
                            THEN insertWaterSecurityData(row) ELSE waterSecurityData
    /\ greenSpaceData' = IF table = "greenSpaceData"
                         THEN insertGreenSpaceData(row) ELSE greenSpaceData
    /\ livabilityScores' = IF table = "livabilityScores"
                           THEN insertLivabilityScore(row) ELSE livabilityScores
    /\ environmentalAlerts' = IF table = "environmentalAlerts"
                              THEN insertEnvironmentalAlert(row) ELSE environmentalAlerts

\* what the handler answers once its rows are stored: the stored rows, and
\* for the livability handler the result with its category, id and timestamp
BodyOf(kind, stored) ==
    IF kind = "livability"
    THEN LET storedScore == stored[1]
         IN  <<[airQualityScore |-> storedScore.airQualityScore,
                waterSecurityScore |-> storedScore.waterSecurityScore,
                greenSpaceScore |-> storedScore.greenSpaceScore,
                overallScore |-> storedScore.overallScore,
                category |-> getLivabilityCategory(storedScore.overallScore),
                recommendations |-> generateRecommendations(storedScore),
                id |-> storedScore.id,
                timestamp |-> storedScore.timestamp]>>
    ELSE stored

\* what the environmental-data handler stores, in the order of its loops
EnvironmentalDataItems(lat, lon, cond) ==
    LET nasaData == fetchAllEnvironmentalData(lat, lon, cond)
    IN  ItemsOf("airQualityData", nasaData.airQuality)
          \o ItemsOf("waterSecurityData", nasaData.waterSecurity)
          \o ItemsOf("greenSpaceData", nasaData.greenSpace)

\* GET /api/environmental-data/:lat/:lon, up to the first insert:
\* nasaData = await fetchAllEnvironmentalData(lat, lon)
StartEnvironmentalData(lat, lon, cond) ==
    /\ Cardinality(requests) < MaxRequests
    /\ started < MaxStarted
    /\ LET todo == EnvironmentalDataItems(lat, lon, cond)
       IN  requests' = requests
                \cup {Request("environmental-data", lat, lon, started + 1, todo)}
    /\ started' = started + 1
    /\ response' = NoResponse
    /\ UNCHANGED <<tables, clock, notApiVars>>

\* one `stored = await storage.insert...(data); stored....push(stored)` of a
\* handler's loop; after the last one the handler answers with what it stored
Store(req) ==
    /\ req \in requests
    /\ req.todo # <<>>
    /\ LET item == Head(req.todo)
           row == Returning(item.data, <<req.serial, Len(req.stored) + 1>>)
           stored == Append(req.stored, row)
       IN  /\ StoreIn(item.table, row)
           /\ IF Len(req.todo) = 1
              THEN /\ requests' = requests \ {req}
                   /\ response' = Response(req.kind, 200, req.lat, req.lon, 0,
                                           BodyOf(req.kind, stored))
              ELSE /\ requests' = (requests \ {req})
                         \cup {[req EXCEPT !.todo = Tail(req.todo), !.stored = stored]}
                   /\ response' = NoResponse
    /\ UNCHANGED <<started, clock, notApiVars>>

\* radius = parseFloat(req.query.radius) || 0.1
RadiusOf(param) == IF Truthy(param) THEN param.v ELSE DefaultRadius

\* GET /api/air-quality/:lat/:lon
HistoryAirQuality(lat, lon, param) ==
    /\ LET data == getAirQualityDataByLocation(lat, lon, RadiusOf(param))
       IN  response' = Response("air-quality", 200, lat, lon, RadiusOf(param), data)
    /\ UNCHANGED <<tables, requests, started, clock, notApiVars>>

\* GET /api/water-security/:lat/:lon
HistoryWaterSecurity(lat, lon, param) ==
    /\ LET data == getWaterSecurityDataByLocation(lat, lon, RadiusOf(param))
       IN  response' = Response("water-security", 200, lat, lon, RadiusOf(param), data)
    /\ UNCHANGED <<tables, requests, started, clock, notApiVars>>

\* GET /api/green-space/:lat/:lon
HistoryGreenSpace(lat, lon, param) ==
    /\ LET data == getGreenSpaceDataByLocation(lat, lon, RadiusOf(param))
       IN  response' = Response("green-space", 200, lat, lon, RadiusOf(param), data)
    /\ UNCHANGED <<tables, requests, started, clock, notApiVars>>

\* <mutant> a dismissal that clears the flag of the alert
DismissAlert_deactivates(id) ==
    /\ response' = Response("dismiss", 200, 0, 0, 0, <<id>>)
    /\ environmentalAlerts' =
          {IF a.id = id THEN [a EXCEPT !.isActive = FALSE] ELSE a :
              a \in environmentalAlerts}
    /\ UNCHANGED <<airQualityData, waterSecurityData, greenSpaceData,
                   livabilityScores, requests, started, clock, notApiVars>>

\* PATCH /api/alerts/:id/dismiss: answers success and stores nothing; the
\* id of the request is kept with the answer
DismissAlert(id) ==
    /\ response' = Response("dismiss", 200, 0, 0, 0, <<id>>)
    /\ UNCHANGED <<tables, requests, started, clock, notApiVars>>

\* an id that no alert has
UnknownId == <<0, 0>>

\* the ids a client asks to dismiss
DismissIds == {a.id : a \in environmentalAlerts} \cup {UnknownId}

\* GET /api/alerts
GetAlerts ==
    /\ response' = Response("alerts", 200, 0, 0, 0, getActiveAlerts)
    /\ UNCHANGED <<tables, requests, started, clock, notApiVars>>

\* time passes between handlers
Tick ==
    /\ requests = {}
    /\ \E t \in ClockValues : t > clock /\ clock' = t
    /\ response' = NoResponse
    /\ UNCHANGED <<tables, requests, started, notApiVars>>

\* time passes between handlers, to the time t
TickTo(t) ==
    /\ requests = {}
    /\ t > clock /\ clock' = t
    /\ response' = NoResponse
    /\ UNCHANGED <<tables, requests, started, notApiVars>>

\* getRecentEnvironmentalData(lat, lon, 24) and (lat, lon, 6)
LivabilityHours == 24
AlertHours == 6

RECURSIVE Sum(_)
Sum(ns) == IF ns = <<>> THEN 0 ELSE Head(ns) + Sum(Tail(ns))

\* the least integer >= a / n and the greatest integer <= a / n, for n > 0
Ceiling(a, n) == 0 - ((0 - a) \div n)
Floor(a, n) == a \div n

\* the averages the livability handler hands to the scorer.  An average need
\* not be an integer; the scorer only tests aqi <= c, stress <= c and
\* coverage >= c against integers c, and x <= c exactly if Ceiling(x) <= c,
\* x >= c exactly if Floor(x) >= c
AverageMetrics(data) ==
    LET aqi == [i \in 1..Len(data.airQuality) |-> data.airQuality[i].aqi]
        stress == [i \in 1..Len(data.waterSecurity) |->
                      data.waterSecurity[i].waterStressLevel]
        \* d.vegetationCoverage || d.ndvi * 100
        coverage == [i \in 1..Len(data.greenSpace) |-> VegCoverage(data.greenSpace[i])]
    IN  [airQuality |-> Fin(Ceiling(Sum(aqi), Len(aqi))),
         waterSecurity |-> Fin(Ceiling(Sum(stress), Len(stress))),
         greenSpace |-> Fin(Floor(Sum(coverage), Len(coverage)))]

\* GET /api/livability/:lat/:lon, up to the insert of the score
StartLivability(lat, lon) ==
    /\ Cardinality(requests) < MaxRequests
    /\ started < MaxStarted
    /\ LET data == getRecentEnvironmentalData(lat, lon, LivabilityHours)
       IN IF \/ Len(data.airQuality) = 0
             \/ Len(data.waterSecurity) = 0
             \/ Len(data.greenSpace) = 0
          THEN /\ response' = Response("livability", 404, lat, lon, 0, <<>>)
               /\ UNCHANGED <<requests, started>>
          ELSE LET livabilityResult == calculateLivabilityScore(AverageMetrics(data))
                   insertScore ==
                       [latitude |-> lat, longitude |-> lon,
                        airQualityScore |-> livabilityResult.airQualityScore,
                        waterSecurityScore |-> livabilityResult.waterSecurityScore,
                        greenSpaceScore |-> livabilityResult.greenSpaceScore,
                        overallScore |-> livabilityResult.overallScore,
                        location |-> LocationLabel(lat, lon)]
               IN  /\ requests' = requests
                        \cup {Request("livability", lat, lon, started + 1,
                                      <<Item("livabilityScores", insertScore)>>)}
                   /\ started' = started + 1
                   /\ response' = NoResponse
    /\ UNCHANGED <<tables, clock, notApiVars>>

\* what the text-generation service does in a handler's run: every call of
\* the run fails, or every call answers as asked
ApiAIOutcomes == {"rejects", "schema_json"}

\* generateAlerts(data): the alerts of the three analyses, in this order
generateAlerts(data, context, outcome) ==
    (IF Len(data.airQuality) > 0
     THEN analyzeAirQuality(data.airQuality, context, outcome).alerts ELSE <<>>)
    \o (IF Len(data.waterSecurity) > 0
        THEN analyzeWaterSecurity(data.waterSecurity, context, outcome).alerts
        ELSE <<>>)
    \o (IF Len(data.greenSpace) > 0
        THEN analyzeGreenSpace(data.greenSpace, context, outcome).alerts ELSE <<>>)

\* POST /api/alerts/generate/:lat/:lon, up to the first insert; with no
\* alert to store the handler answers at once
StartGenerateAlerts(lat, lon, outcome) ==
    /\ Cardinality(requests) < MaxRequests
    /\ started < MaxStarted
    /\ LET data == getRecentEnvironmentalData(lat, lon, AlertHours)
          IN
          LET context == [location |-> LocationLabel(lat, lon),
                          latitude |-> lat, longitude |-> lon]
              newAlerts == generateAlerts(data, context, outcome)
          IN  IF newAlerts = <<>>
              THEN /\ response' = Response("alerts-generate", 200, lat, lon, 0, <<>>)
                   /\ UNCHANGED <<requests, started>>
              ELSE /\ requests' = requests
                        \cup {Request("alerts-generate", lat, lon, started + 1,
                                      ItemsOf("environmentalAlerts", newAlerts))}
                   /\ started' = started + 1
                   /\ response' = NoResponse
    /\ UNCHANGED <<tables, clock, notApiVars>>

ApiNext ==
    \/ \E p \in Places, cond \in Conditions : StartEnvironmentalData(p[1], p[2], cond)
    \/ \E p \in Places : StartLivability(p[1], p[2])
    \/ \E p \in Places, outcome \in ApiAIOutcomes :
          StartGenerateAlerts(p[1], p[2], outcome)
    \/ \E req \in requests : Store(req)
    \/ \E id \in {UnknownId} : DismissAlert(id)
    \/ Tick

\* ---- the gateway under any caller: a caller stores one reading of a place

\* storage.insertAirQualityData(data)
InsertAirQualityData(lat, lon) ==
    /\ started < MaxStarted
    /\ LET data == fetchAuraOMIData(lat, lon, "fair")[1]
       IN  StoreIn("airQualityData", Returning(data, <<started + 1, 1>>))
    /\ started' = started + 1
    /\ response' = NoResponse
    /\ UNCHANGED <<requests, clock, notApiVars>>

\* storage.insertWaterSecurityData(data)
InsertWaterSecurityData(lat, lon) ==
    /\ started < MaxStarted
    /\ LET data == fetchGRACEData(lat, lon, "fair")[1]
       IN  StoreIn("waterSecurityData", Returning(data, <<started + 1, 1>>))
    /\ started' = started + 1
    /\ response' = NoResponse
    /\ UNCHANGED <<requests, clock, notApiVars>>

\* storage.insertGreenSpaceData(data)
InsertGreenSpaceData(lat, lon) ==
    /\ started < MaxStarted
    /\ LET data == fetchLandsatData(lat, lon, "fair")[1]
       IN  StoreIn("greenSpaceData", Returning(data, <<started + 1, 1>>))
    /\ started' = started + 1
    /\ response' = NoResponse
    /\ UNCHANGED <<requests, clock, notApiVars>>

StoreNext ==
    \/ \E p \in Places : InsertAirQualityData(p[1], p[2])
    \/ \E p \in Places : InsertWaterSecurityData(p[1], p[2])
    \/ \E p \in Places : InsertGreenSpaceData(p[1], p[2])
    \/ \E p \in Places, param \in RadiusParams : HistoryAirQuality(p[1], p[2], param)
    \/ \E p \in Places, param \in RadiusParams : HistoryWaterSecurity(p[1], p[2], param)
    \/ \E p \in Places, param \in RadiusParams : HistoryGreenSpace(p[1], p[2], param)
    \/ Tick

\* ---- the database after earlier runs of the environmental-data handler

\* a completed GET /api/environmental-data/:lat/:lon, run at a time
Fetch(lat, lon, cond, time) == [lat |-> lat, lon |-> lon, cond |-> cond, time |-> time]

\* the rows the handler of number serial has stored for the fetch f
StoredByFetch(f, serial) ==
    LET todo == EnvironmentalDataItems(f.lat, f.lon, f.cond)
    IN  [i \in 1..Len(todo) |->
            [table |-> todo[i].table,
             row |-> StoredRow(todo[i].data, <<serial, i>>, f.time)]]

\* the rows of a table after the fetches of seeds, run one after the other
\* by the handlers of numbers 1 - Len(seeds) .. 0
SeedRows(seeds, table) ==
    UNION {LET stored == StoredByFetch(seeds[k], k - Len(seeds))
           IN  {stored[i].row : i \in {j \in 1..Len(stored) : stored[j].table = table}} :
           k \in 1..Len(seeds)}

\* the server at the time of the last of the fetches of seeds, with no
\* handler in progress, no score and no alert stored
SeededReadings(seeds) ==
    /\ airQualityData = SeedRows(seeds, "airQualityData")
    /\ waterSecurityData = SeedRows(seeds, "waterSecurityData")
    /\ greenSpaceData = SeedRows(seeds, "greenSpaceData")
    /\ requests = {}
    /\ started = 0
    /\ clock = IF seeds = <<>> THEN 0 ELSE seeds[Len(seeds)].time
    /\ response = NoResponse

\* ---- the alert handlers on a database of readings

\* an empty database; poor and fair readings of a place; fair readings and,
\* six hours later, poor ones of the next place; poor readings of a place
\* and fair ones of a place outside its box
AlertSeeds ==
    {<<>>,
     <<Fetch(0, 0, "poor", 0)>>,
     <<Fetch(0, 0, "fair", 0)>>,
     <<Fetch(0, 0, "fair", 0), Fetch(10, 0, "poor", 6)>>,
     <<Fetch(0, 0, "poor", 0), Fetch(0, 11, "fair", 0)>>}

\* the times of the handlers: a row of time 0 is 6 hours old at 6, older at 12
AlertClockValues == {0, 6, 12}

AlertsApiInit ==
    /\ \E seeds \in AlertSeeds : SeededReadings(seeds)
    /\ livabilityScores = {}
    /\ environmentalAlerts = {}

\* the places of the requests: the place of the first fetch, and the one
\* outside its box
AlertPlaces == {<<0, 0>>, <<0, 11>>}

AlertsApiNext ==
    \/ \E p \in AlertPlaces, outcome \in ApiAIOutcomes :
          StartGenerateAlerts(p[1], p[2], outcome)
    \/ \E req \in requests : Store(req)
    \/ \E id \in DismissIds : DismissAlert(id)
    \/ GetAlerts
    \/ \E t \in AlertClockValues : TickTo(t)

\* ---- the livability handler on a database of readings

\* an empty database; fair readings of a place; poor readings of a place
\* and, six hours later, fair ones of the next place; fair readings of a
\* place outside the box of the first
LivabilitySeeds ==
    {<<>>,
     <<Fetch(0, 0, "fair", 0)>>,
     <<Fetch(0, 0, "poor", 0), Fetch(10, 0, "fair", 6)>>,
     <<Fetch(0, 11, "fair", 0)>>}

\* the times of the handlers: a row of time 0 is 24 hours old at 24 and
\* older at 30, when a row of time 6 is 24 hours old
LivabilityClockValues == {6, 24, 30}

LivabilityApiInit ==
    /\ \E seeds \in LivabilitySeeds : SeededReadings(seeds)
    /\ livabilityScores = {}
    /\ environmentalAlerts = {}

LivabilityPlaces == {<<0, 0>>, <<0, 11>>}

\* the livability handler, next to an environmental-data handler that is
\* storing the readings of a place
LivabilityApiNext ==
    \/ \E p \in LivabilityPlaces : StartLivability(p[1], p[2])
    \/ \E cond \in Conditions : StartEnvironmentalData(0, 0, cond)
    \/ \E req \in requests : Store(req)
    \/ \E t \in LivabilityClockValues : TickTo(t)

\* ---- the dashboard

\* getRecentEnvironmentalData(lat, lon, 24), alerts.slice(0, 10) and
\* envData.airQuality.slice(0, 24)
DashboardHours == 24
DashboardAlerts == 10
DashboardPoints == 24

\* array.slice(0, n)
Slice(array, n) == SubSeq(array, 1, IF Len(array) < n THEN Len(array) ELSE n)

\* envData.airQuality.length > 0 ? envData.airQuality[0] : null
FirstOrNull(array) == IF Len(array) > 0 THEN Some(array[1]) ELSE Null

\* the payload built from what the Promise.all of the handler has returned
DashboardBody(lat, lon, recent, livabilityScore, dashboardAlerts) ==
    LET currentMetrics ==
            [airQuality |-> FirstOrNull(recent.airQuality),
             waterSecurity |-> FirstOrNull(recent.waterSecurity),
             greenSpace |-> FirstOrNull(recent.greenSpace)]
    IN  <<[location |-> LocationLabel(lat, lon),
           currentMetrics |-> currentMetrics,
           livabilityScore |-> livabilityScore,
           alerts |-> Slice(dashboardAlerts, DashboardAlerts),
           historicalData |->
               [airQuality |-> Slice(recent.airQuality, DashboardPoints),
                waterSecurity |-> Slice(recent.waterSecurity, DashboardPoints),
                greenSpace |-> Slice(recent.greenSpace, DashboardPoints)]]>>

\* GET /api/dashboard/:lat/:lon.  The three queries of its Promise.all are
\* taken as one step: each answers from the database as it is at that time.
Dashboard(lat, lon) ==
    /\ \E recent \in {getRecentEnvironmentalData(lat, lon, DashboardHours)},
          dashboardAlerts \in {getActiveAlerts},
          livabilityScore \in {getLivabilityScoreByLocation(lat, lon)} :
          response' = Response("dashboard", 200, lat, lon, 0,
              DashboardBody(lat, lon, recent, livabilityScore, dashboardAlerts))
    /\ UNCHANGED <<tables, requests, started, clock, notApiVars>>

\* the alerts a completed POST /api/alerts/generate/:lat/:lon of number
\* serial has stored, run on the readings of the database at its time
StoredByGenerate(lat, lon, outcome, serial) ==
    UNION {LET newAlerts ==
                   generateAlerts(recent, [location |-> LocationLabel(lat, lon),
                                           latitude |-> lat, longitude |-> lon],
                                  outcome)
           IN  {StoredRow(newAlerts[i], <<serial, i>>, clock) :
                    i \in 1..Len(newAlerts)} :
           recent \in {getRecentEnvironmentalData(lat, lon, AlertHours)}}

\* an empty database; the poor readings of a place in North America, with
\* its hourly readings; fair readings of that place and, six hours later,
\* poor ones of the place next to it
DashboardSeeds ==
    {<<>>,
     <<Fetch(4000, 0 - 10000, "poor", 0)>>,
     <<Fetch(4000, 0 - 10000, "fair", 0), Fetch(4001, 0 - 10000, "poor", 6)>>}

\* how often the alerts have been generated for the first place
DashboardRuns == {0, 4}

DashboardClockValues == {6, 24, 30}

\* the place of the first readings, the place next to it, and a place
\* 0.02 degrees from it
DashboardPlaces == {<<4000, 0 - 10000>>, <<4001, 0 - 10000>>, <<4000, 0 - 9998>>}

\* the place whose score is computed
ScoredPlaces == {<<4000, 0 - 10000>>}

DashboardInit ==
    /\ \E seeds \in DashboardSeeds : SeededReadings(seeds)
    /\ livabilityScores = {}
    /\ \E runs \in DashboardRuns :
          environmentalAlerts =
              UNION {StoredByGenerate(4000, 0 - 10000, "rejects", 0 - 10 - k) :
                     k \in 1..runs}

DashboardNext ==
    \/ \E p \in DashboardPlaces : Dashboard(p[1], p[2])
    \/ \E p \in ScoredPlaces : StartLivability(p[1], p[2])
    \/ \E req \in requests : Store(req)
    \/ \E t \in DashboardClockValues : TickTo(t)

\* ---- Promise.all: the sub-operations of a caller settle in any order

\* how many sub-operations of one Promise.all throw
MaxThrows == 1

\* the promises handed to Promise.all by fetchAllEnvironmentalData, by
\* getRecentEnvironmentalData, and by the dashboard handler, whose first
\* promise is getRecentEnvironmentalData with its own three queries
FetchOps ==
    <<"fetchAuraOMIData", "fetchTEMPOData", "fetchGRACEData", "fetchSWOTData",
      "fetchLandsatData", "fetchMODISData">>
RecentOps ==
    <<"getAirQualityDataByLocation", "getWaterSecurityDataByLocation",
      "getGreenSpaceDataByLocation">>
DashboardOps == RecentOps \o <<"getLivabilityScoreByLocation", "getActiveAlerts">>

OpsOf(kind) ==
    CASE kind = "fetchAllEnvironmentalData" -> FetchOps
      [] kind = "getRecentEnvironmentalData" -> RecentOps
      [] kind = "dashboard" -> DashboardOps

Unsettled == [state |-> "pending", value |-> <<>>, threw |-> FALSE]
Fulfilled(v, threw) == [state |-> "fulfilled", value |-> v, threw |-> threw]
Rejected == [state |-> "rejected", value |-> <<>>, threw |-> TRUE]

\* <mutant> a fetch method without its catch
TryFetch_rethrows(outcome, body) ==
    IF outcome = "throws" THEN Rejected ELSE Fulfilled(body, FALSE)

\* try { ... return [reading] } catch (error) { return [] }
TryFetch(outcome, body) ==
    IF outcome = "throws" THEN Fulfilled(<<>>, TRUE) ELSE Fulfilled(body, FALSE)

\* a query of the gateway: its rows, or the error of the database
Query(outcome, rows) ==
    IF outcome = "throws" THEN Rejected ELSE Fulfilled(rows, FALSE)

\* the promise of a sub-operation of the caller c, settled
Run(c, op, outcome) ==
    CASE op = "fetchAuraOMIData" ->
            TryFetch(outcome, fetchAuraOMIData(c.lat, c.lon, c.cond))
      [] op = "fetchTEMPOData" ->
            TryFetch(outcome, fetchTEMPOData(c.lat, c.lon, c.cond))
      [] op = "fetchGRACEData" ->
            TryFetch(outcome, fetchGRACEData(c.lat, c.lon, c.cond))
      [] op = "fetchSWOTData" ->
            TryFetch(outcome, fetchSWOTData(c.lat, c.lon, c.cond))
      [] op = "fetchLandsatData" ->
            TryFetch(outcome, fetchLandsatData(c.lat, c.lon, c.cond))
      [] op = "fetchMODISData" ->
            TryFetch(outcome, fetchMODISData(c.lat, c.lon, c.cond))
      [] op = "getAirQualityDataByLocation" ->
            Query(outcome, getAirQualityDataByLocation(c.lat, c.lon, DefaultRadius))
      [] op = "getWaterSecurityDataByLocation" ->
            Query(outcome, getWaterSecurityDataByLocation(c.lat, c.lon, DefaultRadius))
      [] op = "getGreenSpaceDataByLocation" ->
            Query(outcome, getGreenSpaceDataByLocation(c.lat, c.lon, DefaultRadius))
      [] op = "getLivabilityScoreByLocation" ->
            Query(outcome, getLivabilityScoreByLocation(c.lat, c.lon))
      [] op = "getActiveAlerts" -> Query(outcome, getActiveAlerts)

\* <mutant> the values in the order in which the promises settled
PromiseAll_completionOrder(ops, promises, completion) ==
    IF \E op \in DOMAIN promises : promises[op].state = "rejected"
    THEN Rejected
    ELSE Fulfilled([i \in 1..Len(ops) |-> promises[completion[i]].value], FALSE)

\* Promise.all(ops): rejected as soon as one promise is, and otherwise the
\* values of the promises in the order of the array
PromiseAll(ops, promises, completion) ==
    IF \E op \in DOMAIN promises : promises[op].state = "rejected"
    THEN Rejected
    ELSE Fulfilled([i \in 1..Len(ops) |-> promises[ops[i]].value], FALSE)

\* what the caller c returns from the array v of its Promise.all
Destructured(c, v) ==
    CASE c.kind = "fetchAllEnvironmentalData" ->
            [airQuality |-> v[1] \o v[2],
             waterSecurity |-> v[3] \o v[4],
             greenSpace |-> v[5] \o v[6]]
      [] c.kind = "getRecentEnvironmentalData" ->
            [airQuality |-> Since(v[1], clock - c.hours),
             waterSecurity |-> Since(v[2], clock - c.hours),
             greenSpace |-> Since(v[3], clock - c.hours)]
      [] c.kind = "dashboard" ->
            [envData |-> [airQuality |-> Since(v[1], clock - c.hours),
                          waterSecurity |-> Since(v[2], clock - c.hours),
                          greenSpace |-> Since(v[3], clock - c.hours)],
             livabilityScore |-> v[4],
             alerts |-> v[5]]

\* a sub-operation settles
Settle(op, outcome) ==
    /\ op \in pending
    /\ joined.state = "none"
    /\ outcome = "throws" =>
            Cardinality({o \in DOMAIN settled : settled[o].threw}) < MaxThrows
    /\ settled' = [settled EXCEPT ![op] = Run(caller, op, outcome)]
    /\ pending' = pending \ {op}
    /\ order' = Append(order, op)
    /\ response' = NoResponse
    /\ UNCHANGED <<caller, joined, tables, requests, started, clock,
                   scorerVars, alertVars, sourceVars>>

\* the await of the caller returns or throws; the handler of the dashboard
\* then answers
Await ==
    /\ caller.kind # "none"
    /\ joined.state = "none"
    /\ pending = {} \/ \E op \in DOMAIN settled : settled[op].state = "rejected"
    /\ \E all \in {PromiseAll(OpsOf(caller.kind), settled, order)} :
          /\ joined' = IF all.state = "rejected"
                       THEN [state |-> "rejected"]
                       ELSE [state |-> "fulfilled",
                             value |-> Destructured(caller, all.value)]
          /\ response' =
                IF caller.kind # "dashboard" THEN NoResponse
                ELSE IF all.state = "rejected"
                THEN Response("dashboard", 500, caller.lat, caller.lon, 0, <<>>)
                ELSE \* the value of joined', written out
                     LET got == Destructured(caller, all.value)
                     IN  Response("dashboard", 200, caller.lat, caller.lon, 0,
                             DashboardBody(caller.lat, caller.lon, got.envData,
                                           got.livabilityScore, got.alerts))
    /\ UNCHANGED <<caller, pending, settled, order, tables, requests, started,
                   clock, scorerVars, alertVars, sourceVars>>

\* the callers: a fetch inside and one outside the box of TEMPO; the queries
\* of the last 6 and 24 hours; the dashboard
Callers ==
    {[kind |-> "fetchAllEnvironmentalData", lat |-> 4000, lon |-> 0 - 10000,
      cond |-> "poor", hours |-> 0],
     [kind |-> "fetchAllEnvironmentalData", lat |-> 0, lon |-> 0,
      cond |-> "fair", hours |-> 0],
     [kind |-> "getRecentEnvironmentalData", lat |-> 4000, lon |-> 0 - 10000,
      cond |-> "", hours |-> AlertHours],
     [kind |-> "getRecentEnvironmentalData", lat |-> 4000, lon |-> 0 - 10000,
      cond |-> "", hours |-> LivabilityHours],
     [kind |-> "dashboard", lat |-> 4000, lon |-> 0 - 10000,
      cond |-> "", hours |-> DashboardHours]}

\* readings of a place and of the place next to it, some of them older than
\* six hours, and the alerts of one run
JoinSeeds ==
    {<<Fetch(4000, 0 - 10000, "poor", 0)>>,
     <<Fetch(4000, 0 - 10000, "fair", 0), Fetch(4001, 0 - 10000, "poor", 12)>>}

\* a caller has issued its sub-operations; the database of a fetch is empty
JoinInit ==
    /\ caller \in Callers
    /\ pending = {OpsOf(caller.kind)[i] : i \in 1..Len(OpsOf(caller.kind))}
    /\ settled = [op \in pending |-> Unsettled]
    /\ order = <<>>
    /\ joined = [state |-> "none"]
    /\ IF caller.kind = "fetchAllEnvironmentalData"
       THEN ApiIdle
       ELSE /\ \E seeds \in JoinSeeds : SeededReadings(seeds)
            /\ livabilityScores = {}
            /\ environmentalAlerts =
                  StoredByGenerate(4000, 0 - 10000, "rejects", 0 - 11)

JoinNext ==
    \/ \E op \in pending, outcome \in {"returns", "throws"} : Settle(op, outcome)
    \/ Await

\* ---- the validation of the coordinates

\* the :lat and :lon segments of the requests
PathSegments == {"0", "0.1", "0.1km", "abc", "NaN", "Infinity", "-Infinity"}

\* parseFloat(req.params.lat): the number at the start of the text, in
\* hundredths; text after the number is ignored
parseFloat(segment) ==
    CASE segment = "0" -> Fin(0)
      [] segment = "0.1" -> Fin(10)
      [] segment = "0.1km" -> Fin(10)
      [] segment = "abc" -> NaN
      [] segment = "NaN" -> NaN
      [] segment = "Infinity" -> PosInf
      [] segment = "-Infinity" -> NegInf

isNaN(x) == x.k = "nan"

\* isNaN(lat) || isNaN(lon)
InvalidCoordinates(lat, lon) == isNaN(lat) \/ isNaN(lon)

\* the requests of the model: valid ones, and ones with a segment that is
\* no number, is NaN or is infinite
Paths ==
    {<<"0", "0">>, <<"0.1", "0">>, <<"0.1km", "0">>, <<"abc", "0">>,
     <<"0", "NaN">>, <<"Infinity", "0">>, <<"0", "-Infinity">>,
     <<"Infinity", "NaN">>}

\* the response to the request of a path
Answer(path, r) == [r EXCEPT !.path = path]

\* return res.status(400).json({ error: "Invalid coordinates" })
Reject(kind, path) ==
    /\ response' = Answer(path, Response(kind, 400, 0, 0, 0, <<>>))
    /\ UNCHANGED <<tables, requests, started, clock, notApiVars>>

\* n >= x and n <= x for a stored coordinate n and a JavaScript number x
AtLeast(n, x) == (x.k = "fin" /\ n >= x.v) \/ x.k = "ninf"
AtMost(n, x) == (x.k = "fin" /\ n <= x.v) \/ x.k = "pinf"

\* lat - radius and lat + radius: an infinite lat stays what it is
Shifted(x, by) == IF x.k = "fin" THEN Fin(x.v + by) ELSE x

\* the rows of a table inside the box around coordinates that passed the
\* validation
InBoxAt(table, lat, lon, radius) ==
    {r \in table : /\ AtLeast(r.latitude, Shifted(lat, 0 - radius))
                   /\ AtMost(r.latitude, Shifted(lat, radius))
                   /\ AtLeast(r.longitude, Shifted(lon, 0 - radius))
                   /\ AtMost(r.longitude, Shifted(lon, radius))}

\* what GET /api/air-quality/:lat/:lon, /api/water-security/:lat/:lon and
\* /api/green-space/:lat/:lon answer without a radius parameter
HistoryResponse(kind, table, path) ==
    LET lat == parseFloat(path[1])
        lon == parseFloat(path[2])
    IN  IF InvalidCoordinates(lat, lon)
        THEN Answer(path, Response(kind, 400, 0, 0, 0, <<>>))
        ELSE Answer(path, Response(kind, 200, lat.v, lon.v, DefaultRadius,
                 OrderByDescTimestamp(InBoxAt(table, lat, lon, DefaultRadius))))

HistoryAirQualityAt(path) ==
    /\ response' = HistoryResponse("air-quality", airQualityData, path)
    /\ UNCHANGED <<tables, requests, started, clock, notApiVars>>

HistoryWaterSecurityAt(path) ==
    /\ response' = HistoryResponse("water-security", waterSecurityData, path)
    /\ UNCHANGED <<tables, requests, started, clock, notApiVars>>

HistoryGreenSpaceAt(path) ==
    /\ response' = HistoryResponse("green-space", greenSpaceData, path)
    /\ UNCHANGED <<tables, requests, started, clock, notApiVars>>

\* the handlers that go on to the data source, the scorer or the evaluator,
\* run one after the other.  What these make of an infinite coordinate is
\* outside the model: the requests of the model that pass their validation
\* have finite coordinates.
EnvironmentalDataAt(path) ==
    /\ requests = {}
    /\ LET lat == parseFloat(path[1])
           lon == parseFloat(path[2])
       IN  IF InvalidCoordinates(lat, lon) THEN Reject("environmental-data", path)
           ELSE /\ lat.k = "fin" /\ lon.k = "fin"
                /\ StartEnvironmentalData(lat.v, lon.v, "fair")

LivabilityAt(path) ==
    /\ requests = {}
    /\ LET lat == parseFloat(path[1])
           lon == parseFloat(path[2])
       IN  IF InvalidCoordinates(lat, lon) THEN Reject("livability", path)
           ELSE /\ lat.k = "fin" /\ lon.k = "fin"
                /\ StartLivability(lat.v, lon.v)

GenerateAlertsAt(path) ==
    /\ requests = {}
    /\ LET lat == parseFloat(path[1])
           lon == parseFloat(path[2])
       IN  IF InvalidCoordinates(lat, lon) THEN Reject("alerts-generate", path)
           ELSE /\ lat.k = "fin" /\ lon.k = "fin"
                /\ StartGenerateAlerts(lat.v, lon.v, "rejects")

DashboardAt(path) ==
    /\ requests = {}
    /\ LET lat == parseFloat(path[1])
           lon == parseFloat(path[2])
       IN  IF InvalidCoordinates(lat, lon) THEN Reject("dashboard", path)
           ELSE /\ lat.k = "fin" /\ lon.k = "fin"
                /\ Dashboard(lat.v, lon.v)

\* an empty database, and the poor readings of a place
ValidationSeeds == {<<>>, <<Fetch(0, 0, "poor", 0)>>}

ValidationInit ==
    /\ \E seeds \in ValidationSeeds : SeededReadings(seeds)
    /\ livabilityScores = {}
    /\ environmentalAlerts = {}

ValidationNext ==
    \/ \E path \in Paths : HistoryAirQualityAt(path)
    \/ \E path \in Paths : HistoryWaterSecurityAt(path)
    \/ \E path \in Paths : HistoryGreenSpaceAt(path)
    \/ \E path \in Paths : EnvironmentalDataAt(path)
    \/ \E path \in Paths : LivabilityAt(path)
    \/ \E path \in Paths : GenerateAlertsAt(path)
    \/ \E path \in Paths : DashboardAt(path)
    \/ \E req \in requests : Store(req)

\* ---- failing inserts

\* an insert of a handler's loop throws: the catch of the handler answers
\* 500 (res.status(500).json({ error: ... })); nothing undoes the inserts
\* the handler has made
StoreFails(req) ==
    /\ req \in requests
    /\ req.todo # <<>>
    /\ requests' = requests \ {req}
    /\ response' = Response(req.kind, 500, req.lat, req.lon, 0, <<>>)
    /\ UNCHANGED <<tables, started, clock, notApiVars>>

\* the handlers that store rows, one request after the other, on an empty
\* database and on one with readings
FailuresInit == ValidationInit

FailuresNext ==
    \/ \E path \in Paths : EnvironmentalDataAt(path)
    \/ \E path \in Paths : LivabilityAt(path)
    \/ \E path \in Paths : GenerateAlertsAt(path)
    \/ \E req \in requests : Store(req)
    \/ \E req \in requests : StoreFails(req)

----------------------------------------------------------------------------
(* Specifications *)

\* the scorer on its inputs
InitScorer == ScorerInit /\ AlertsIdle /\ ApiIdle /\ SourceIdle /\ JoinIdle
SpecScorer == InitScorer /\ [][ScorerNext]_vars

\* the evaluator on its inputs
InitAlerts == AlertsInit /\ ScorerIdle /\ ApiIdle /\ SourceIdle /\ JoinIdle
SpecAlerts == InitAlerts /\ [][AlertsNext]_vars

\* the handlers that store rows, from an empty database
Init == ApiInit /\ ScorerIdle /\ AlertsIdle /\ SourceIdle /\ JoinIdle
Spec == Init /\ [][ApiNext]_vars

\* the gateway and the handlers that query it, from an empty database
InitStore == ApiInit /\ ScorerIdle /\ AlertsIdle /\ SourceIdle /\ JoinIdle
SpecStore == InitStore /\ [][StoreNext]_vars

\* the alert handlers, from a database of readings
InitAlertsApi == AlertsApiInit /\ ScorerIdle /\ AlertsIdle /\ SourceIdle /\ JoinIdle
SpecAlertsApi == InitAlertsApi /\ [][AlertsApiNext]_vars

\* the livability handler on stored readings
InitLivability == LivabilityApiInit /\ ScorerIdle /\ AlertsIdle /\ SourceIdle /\ JoinIdle
SpecLivability == InitLivability /\ [][LivabilityApiNext]_vars

\* the validation of the coordinates in the handlers
InitValidation == ValidationInit /\ ScorerIdle /\ AlertsIdle /\ SourceIdle /\ JoinIdle
SpecValidation == InitValidation /\ [][ValidationNext]_vars

\* the dashboard on stored readings, scores and alerts
InitDashboard == DashboardInit /\ ScorerIdle /\ AlertsIdle /\ SourceIdle /\ JoinIdle
SpecDashboard == InitDashboard /\ [][DashboardNext]_vars

\* the handlers that store rows, with inserts that fail
InitFailures == FailuresInit /\ ScorerIdle /\ AlertsIdle /\ SourceIdle /\ JoinIdle
SpecFailures == InitFailures /\ [][FailuresNext]_vars

\* the fetch methods of the data source, at every hour and in every season
InitSource == SourceInit /\ JoinIdle /\ ScorerIdle /\ AlertsIdle /\ ApiIdle
SpecSource == InitSource /\ [][SourceNext]_vars

\* the sub-operations of a Promise.all, settling in any order
InitJoin == JoinInit /\ SourceIdle /\ ScorerIdle /\ AlertsIdle
SpecJoin == InitJoin /\ [][JoinNext]_vars

----------------------------------------------------------------------------
(* Properties of the scorer, checked under SpecScorer *)

\* calculateLivabilityScore has returned
Scored == pcScorer \in {"scored", "done"}

\* a step function given by inclusive upper boundaries: the value of the first
\* boundary the input does not exceed, and the last value when it exceeds all
RECURSIVE StepUpTo(_, _, _)
StepUpTo(x, bounds, vals) ==
    IF bounds = <<>> THEN Head(vals)
    ELSE IF (x.k = "fin" /\ x.v <= Head(bounds)) \/ x.k = "ninf" THEN Head(vals)
    ELSE StepUpTo(x, Tail(bounds), Tail(vals))

\* a step function given by inclusive lower boundaries
RECURSIVE StepFrom(_, _, _)
StepFrom(x, bounds, vals) ==
    IF bounds = <<>> THEN Head(vals)
    ELSE IF (x.k = "fin" /\ x.v >= Head(bounds)) \/ x.k = "pinf" THEN Head(vals)
    ELSE StepFrom(x, Tail(bounds), Tail(vals))

ExampleMetrics == [airQuality |-> Fin(100), waterSecurity |-> Fin(40),
                   greenSpace |-> Fin(50)]

WeightedSum100 ==
    40 * result.airQualityScore + 35 * result.waterSecurityScore
        + 25 * result.greenSpaceScore

BestMetrics == [airQuality |-> Fin(0), waterSecurity |-> Fin(0),
                greenSpace |-> Fin(100)]

\* C2: overallScore is 0.40*air + 0.35*water + 0.25*green rounded to the
\* nearest integer (halves up), the weights sum to 1, overallScore lies in
\* 0..100, and it is 100 for (0, 0, 100).
C2_OverallIsRoundedWeightedSum ==
    /\ weights.airQuality + weights.waterSecurity + weights.greenSpace = 100
    /\ Scored =>
        /\ 100 * result.overallScore - 50 <= WeightedSum100
        /\ WeightedSum100 < 100 * result.overallScore + 50
        /\ result.overallScore \in 0..100
        /\ (metrics = BestMetrics => result.overallScore = 100)

\* a weighted sum that ends in .5 is rounded, and the best triple scores 100
C2_Witness ==
    /\ pcScorer = "scored"
    /\ WeightedSum100 % 100 = 50
    /\ 100 * result.overallScore = WeightedSum100 + 50

C2_WitnessBest ==
    pcScorer = "scored" /\ metrics = BestMetrics /\ result.overallScore = 100

\* getLivabilityCategory has returned
Classified == pcScorer \in {"classified", "done"}

\* C3: getLivabilityCategory puts every score in exactly one of five bands
\* (>=85 Excellent, >=70 Good, >=55 Moderate, >=40 Poor, else Very Poor),
\* and the score 60 of (100, 40, 50) is Moderate.
C3_CategoryBands ==
    Classified =>
        /\ category \in {"Excellent", "Good", "Moderate", "Poor", "Very Poor"}
        /\ category = "Excellent" <=> score >= 85
        /\ category = "Good" <=> (70 <= score /\ score < 85)
        /\ category = "Moderate" <=> (55 <= score /\ score < 70)
        /\ category = "Poor" <=> (40 <= score /\ score < 55)
        /\ category = "Very Poor" <=> score < 40
        /\ (pcScorer = "done" /\ metrics = ExampleMetrics =>
               score = 60 /\ category = "Moderate")

C3_Witness ==
    /\ pcScorer = "done"
    /\ metrics = ExampleMetrics
    /\ result.overallScore = 60
    /\ category = "Moderate"

\* every band boundary is classified directly
C3_WitnessBoundary ==
    pcScorer = "classified" /\ score = 55 /\ category = "Moderate"

----------------------------------------------------------------------------
(* Properties of the evaluator, checked under SpecAlerts *)

\* the alerts of a sequence whose title is in a set
WithTitle(as, titles) == SelectSeq(as, LAMBDA a : a.title \in titles)

AirLevelTitles == {"Unhealthy Air Quality Detected", "Moderate Air Quality Alert"}
RapidTitles == {"Rapid Air Quality Deterioration"}
StressTitles == {"Critical Water Stress Level", "Elevated Water Stress"}
FloodTitles == {"High Flood Risk Alert", "Moderate Flood Risk"}
GreenTitles == {"Critical Green Space Deficiency", "Low Green Space Coverage"}

\* analyzeAirQuality has returned, on a non-empty sequence
AirAnalyzed == pcAlerts \in {"water", "green", "done"} /\ Len(envData.airQuality) > 0
WaterAnalyzed == pcAlerts \in {"green", "done"} /\ Len(envData.waterSecurity) > 0
GreenAnalyzed == pcAlerts = "done" /\ Len(envData.greenSpace) > 0

AqiOf(airData) == [i \in 1..Len(airData) |-> airData[i].aqi]
TypesOf(as) == [i \in 1..Len(as) |-> as[i].type]

\* the types a two-level rule emits: danger from dangerAt on, warning from
\* warningAt on, nothing below
LevelTypes(x, warningAt, dangerAt) ==
    IF x >= dangerAt THEN <<"danger">>
    ELSE IF x >= warningAt THEN <<"warning">>
    ELSE <<>>

\* C4: on a non-empty most-recent-first sequence analyzeAirQuality emits at
\* most one level alert (danger if latest AQI >= 150, else warning if >= 100,
\* else none) and, independently, exactly one rapid-deterioration warning iff
\* there are two readings and latest - previous > 50; AQI [160, 90] gives
\* exactly a danger and a warning.
C4_AirQualityAlerts ==
    AirAnalyzed =>
        LET airData == envData.airQuality
            air == SelectSeq(alerts, LAMBDA a : a.category = "air_quality")
            level == WithTitle(air, AirLevelTitles)
            rapid == WithTitle(air, RapidTitles)
        IN  /\ Len(air) = Len(level) + Len(rapid)
            /\ TypesOf(level) = LevelTypes(airData[1].aqi, 100, 150)
            /\ TypesOf(rapid) =
                 (IF Len(airData) >= 2 /\ airData[1].aqi - airData[2].aqi > 50
                  THEN <<"warning">> ELSE <<>>)
            /\ air = level \o rapid
            /\ (AqiOf(airData) = <<160, 90>> => TypesOf(air) = <<"danger", "warning">>)

C4_Witness ==
    /\ pcAlerts = "water"
    /\ AqiOf(envData.airQuality) = <<160, 90>>
    /\ TypesOf(alerts) = <<"danger", "warning">>
    /\ alerts[2].title = "Rapid Air Quality Deterioration"

\* a rise of exactly 50 is not a rapid deterioration
C4_WitnessBoundary ==
    /\ pcAlerts = "water"
    /\ AqiOf(envData.airQuality) = <<160, 110>>
    /\ TypesOf(alerts) = <<"danger">>

\* C5: on the latest water reading the water-stress rule (danger if stress
\* >= 80, else warning if >= 60) and the flood-risk rule (when floodRisk is
\* present: danger if >= 70, else warning if >= 40) are evaluated
\* independently; {waterStressLevel: 85, floodRisk: 75} gives exactly two
\* danger alerts.
C5_WaterSecurityAlerts ==
    WaterAnalyzed =>
        LET latest == envData.waterSecurity[1]
            water == SelectSeq(alerts, LAMBDA a : a.category = "water_security")
            stress == WithTitle(water, StressTitles)
            flood == WithTitle(water, FloodTitles)
        IN  /\ water = stress \o flood
            /\ TypesOf(stress) = LevelTypes(latest.waterStressLevel, 60, 80)
            /\ TypesOf(flood) =
                 (IF latest.floodRisk.present
                  THEN LevelTypes(latest.floodRisk.v, 40, 70) ELSE <<>>)
            /\ (latest.waterStressLevel = 85 /\ latest.floodRisk = Some(75) =>
                   TypesOf(water) = <<"danger", "danger">>)

C5_Witness ==
    /\ pcAlerts = "green"
    /\ Len(envData.waterSecurity) > 0
    /\ envData.waterSecurity[1].waterStressLevel = 85
    /\ envData.waterSecurity[1].floodRisk = Some(75)
    /\ envData.airQuality = <<>>
    /\ TypesOf(alerts) = <<"danger", "danger">>
    /\ alerts[1].title = "Critical Water Stress Level"
    /\ alerts[2].title = "High Flood Risk Alert"

\* a flood warning beside a water-stress danger
C5_WitnessMixed ==
    /\ pcAlerts = "green"
    /\ envData.airQuality = <<>>
    /\ Len(envData.waterSecurity) > 0
    /\ envData.waterSecurity[1].waterStressLevel = 80
    /\ envData.waterSecurity[1].floodRisk = Some(40)
    /\ TypesOf(alerts) = <<"danger", "warning">>

\* the coverage the claim gives a green-space reading: vegetationCoverage
\* whenever the field is present, ndvi * 100 only when it is absent
CoverageIfPresent(latest) ==
    IF latest.vegetationCoverage.present THEN latest.vegetationCoverage.v
    ELSE (latest.ndvi * 100) \div 100

\* C6: the coverage of a green-space reading is vegetationCoverage whenever
\* that field is present (including 0) and ndvi * 100 only when it is absent;
\* analyzeGreenSpace emits danger if coverage <= 15, else warning if <= 30,
\* else nothing; {ndvi: 0.1, vegetationCoverage absent} gives a danger alert.
C6_GreenSpaceCoverage ==
    GreenAnalyzed =>
        LET latest == envData.greenSpace[1]
            coverage == CoverageIfPresent(latest)
            green == SelectSeq(alerts, LAMBDA a : a.category = "green_space")
        IN  /\ TypesOf(green) =
                 (IF coverage <= 15 THEN <<"danger">>
                  ELSE IF coverage <= 30 THEN <<"warning">>
                  ELSE <<>>)
            /\ (latest.ndvi = 10 /\ latest.vegetationCoverage = Null =>
                   TypesOf(green) = <<"danger">>)

\* the outcomes in which the text-generation call has failed: it rejected,
\* or its response was malformed (no choices, no content, JSON without the
\* requested fields) or unparseable
AIFailures == AIOutcomes \ {"schema_json"}

StaticRecommendations(cat) ==
    CASE cat = "air_quality" -> "static_immediate_shortTerm_longTerm"
      [] cat = "water_security" -> "static_conservation_infrastructure_emergency"
      [] cat = "green_space" -> "static_planning_community_policy"

\* the alert a text-generation call was made for: the level alert of its category
AlertOfCall(call) ==
    WithTitle(SelectSeq(alerts, LAMBDA a : a.category = call.category),
              AirLevelTitles \cup StressTitles \cup GreenTitles)

\* C7: whenever the text-generation call made for an air-quality,
\* water-stress or green-space level alert fails in any way (network error,
\* thrown exception, malformed or unparseable response), generateAlerts still
\* completes, still emits that alert, and the alert's recommendations are the
\* fixed static list of its category.
C7_FailedCallFallsBack ==
    pcAlerts = "done" =>
        \A i \in 1..Len(aiCalls) :
            aiCalls[i].outcome \in AIFailures =>
                /\ Len(AlertOfCall(aiCalls[i])) = 1
                /\ AlertOfCall(aiCalls[i])[1].type = aiCalls[i].severity
                /\ AlertOfCall(aiCalls[i])[1].recommendations =
                       StaticRecommendations(aiCalls[i].category)

\* C8: every alert generateAlerts emits, under every rule and for every
\* reading value, has a severity within 0..100.
C8_SeverityWithinRange ==
    \A i \in 1..Len(alerts) :
        /\ alerts[i].severity.d > 0
        /\ alerts[i].severity.n >= 0
        /\ alerts[i].severity.n <= 100 * alerts[i].severity.d

\* an out-of-range AQI of 600 is capped at 100 ...
C8_Witness ==
    /\ pcAlerts = "done"
    /\ \E i \in 1..Len(alerts) :
          /\ alerts[i].title = "Unhealthy Air Quality Detected"
          /\ alerts[i].value = 600
          /\ alerts[i].severity = [n |-> 100, d |-> 1]

\* ... as is the green-space severity of a negative coverage
C8_WitnessGreen ==
    /\ pcAlerts = "done"
    /\ \E i \in 1..Len(alerts) :
          /\ alerts[i].category = "green_space"
          /\ alerts[i].value < 0
          /\ alerts[i].severity = [n |-> 100, d |-> 1]

----------------------------------------------------------------------------
(* Properties of the gateway, checked under SpecStore *)

\* a location query has just answered
Queried == response.kind \in {"air-quality", "water-security", "green-space"}

\* the table a location query reads
TableOf(kind) ==
    CASE kind = "air-quality" -> airQualityData
      [] kind = "water-security" -> waterSecurityData
      [] kind = "green-space" -> greenSpaceData

RowsOf(body) == {body[i] : i \in 1..Len(body)}

\* the rows of the queried table stored at exactly the queried coordinates
StoredAt(kind, lat, lon) ==
    {r \in TableOf(kind) : r.latitude = lat /\ r.longitude = lon}

\* the answer holds each row once, the latest first
DescendingTimestamps(body) ==
    /\ Cardinality(RowsOf(body)) = Len(body)
    /\ \A i \in 1..Len(body) : \A j \in i..Len(body) :
          body[i].timestamp >= body[j].timestamp

\* C9: a location query returns exactly the stored rows of its category with
\* latitude in [lat - radius, lat + radius] and longitude in
\* [lon - radius, lon + radius], ordered by timestamp descending; so a reading
\* stored at the queried coordinates is returned for any non-zero radius.
C9_LocationQuery ==
    Queried =>
        /\ RowsOf(response.body) =
              {r \in TableOf(response.kind) :
                  /\ response.lat - response.radius <= r.latitude
                  /\ r.latitude <= response.lat + response.radius
                  /\ response.lon - response.radius <= r.longitude
                  /\ r.longitude <= response.lon + response.radius}
        /\ DescendingTimestamps(response.body)
        /\ response.radius # 0 =>
              StoredAt(response.kind, response.lat, response.lon)
                 \subseteq RowsOf(response.body)

\* the part of C9 that holds for every radius: the rows of the box, latest first
C9_BoxAndOrder ==
    Queried =>
        /\ RowsOf(response.body) =
              {r \in TableOf(response.kind) :
                  /\ response.lat - response.radius <= r.latitude
                  /\ r.latitude <= response.lat + response.radius
                  /\ response.lon - response.radius <= r.longitude
                  /\ r.longitude <= response.lon + response.radius}
        /\ DescendingTimestamps(response.body)

\* a query of a box that holds one of two stored rows, and a query that
\* answers two rows of different times
C9_BoxSplits ==
    /\ Queried
    /\ Len(response.body) = 1
    /\ Cardinality(TableOf(response.kind)) = 2
C9_TwoTimes ==
    /\ Queried
    /\ Len(response.body) = 2
    /\ response.body[1].timestamp > response.body[2].timestamp

----------------------------------------------------------------------------
(* Properties of the handlers, checked under Spec *)

UniqueIds(table) == \A r1 \in table, r2 \in table : r1.id = r2.id => r1 = r2

\* C10: the store is append-only: in every step of every interleaving of the
\* handlers, each stored reading, score and alert stays stored with all of
\* its fields, and no row takes the id of another.
C10_AppendOnly ==
    [][/\ airQualityData \subseteq airQualityData'
       /\ waterSecurityData \subseteq waterSecurityData'
       /\ greenSpaceData \subseteq greenSpaceData'
       /\ livabilityScores \subseteq livabilityScores'
       /\ environmentalAlerts \subseteq environmentalAlerts'
       /\ UniqueIds(airQualityData') /\ UniqueIds(waterSecurityData')
       /\ UniqueIds(greenSpaceData') /\ UniqueIds(livabilityScores')
       /\ UniqueIds(environmentalAlerts')]_vars

\* two handlers store readings of one place at the same time, and what each
\* has stored so far is in the tables
C10_Witness ==
    \E r1 \in requests, r2 \in requests :
        /\ r1.serial # r2.serial
        /\ r1.kind = "environmental-data" /\ r2.kind = "environmental-data"
        /\ r1.lat = r2.lat /\ r1.lon = r2.lon
        /\ Len(r1.stored) >= 2 /\ Len(r2.stored) >= 2
        /\ r1.stored[1] \in airQualityData /\ r2.stored[1] \in airQualityData
        /\ r1.stored[2] \in waterSecurityData /\ r2.stored[2] \in waterSecurityData

\* an alert has been dismissed: the stored alerts are all still active
C10_WitnessDismiss ==
    /\ response.kind = "dismiss"
    /\ environmentalAlerts # {}
    /\ \A a \in environmentalAlerts : a.isActive

\* a score has been stored next to the readings it was computed from
C10_WitnessScore ==
    /\ response.kind = "livability" /\ response.status = 200
    /\ \E s \in livabilityScores : s.id = response.body[1].id
    /\ airQualityData # {} /\ waterSecurityData # {} /\ greenSpaceData # {}
----------------------------------------------------------------------------
(* Properties of the alert handlers, checked under SpecAlertsApi *)

\* C11: PATCH /api/alerts/{id}/dismiss answers success for any id and leaves
\* the store unchanged: every stored alert keeps isActive = true, and every
\* GET /api/alerts returns every stored alert, the dismissed ones included.
C11_DismissIsStub ==
    [][/\ response'.kind = "dismiss" =>
             /\ response'.status = 200
             /\ UNCHANGED tables
       /\ \A a \in environmentalAlerts' : a.isActive
       /\ response'.kind = "alerts" =>
             environmentalAlerts' \subseteq RowsOf(response'.body)]_vars

\* the dismissal of a stored alert has been answered: the alert is stored
\* and active
C11_Witness ==
    /\ response.kind = "dismiss"
    /\ response.status = 200
    /\ \E a \in environmentalAlerts : a.id = response.body[1] /\ a.isActive

\* the dismissal of an id that no alert has, next to stored alerts
C11_WitnessUnknownId ==
    /\ response.kind = "dismiss"
    /\ response.body[1] = UnknownId
    /\ environmentalAlerts # {}

\* the alerts have been listed
Listed == response.kind = "alerts"

\* C12: GET /api/alerts returns exactly the stored alerts whose isActive flag
\* is true, each once, ordered by severity descending and, among equal
\* severities, by timestamp descending.
C12_ActiveAlertsOrdered ==
    Listed =>
        /\ RowsOf(response.body) = {a \in environmentalAlerts : a.isActive = TRUE}
        /\ Cardinality(RowsOf(response.body)) = Len(response.body)
        /\ \A i \in 1..Len(response.body) : \A j \in i..Len(response.body) :
              LET a == response.body[i]
                  b == response.body[j]
              IN  \/ a.severity.n * b.severity.d > b.severity.n * a.severity.d
                  \/ /\ a.severity.n * b.severity.d = b.severity.n * a.severity.d
                     /\ a.timestamp >= b.timestamp

\* a listing with two alerts of one severity and different times, the later
\* first, after an alert of a greater severity that is older than the last
C12_Witness ==
    /\ Listed
    /\ \E i \in 1..Len(response.body) : \E j \in i..Len(response.body) :
          \E k \in j..Len(response.body) :
              /\ SeverityGreater(response.body[i], response.body[j])
              /\ SeverityEqual(response.body[j], response.body[k])
              /\ response.body[j].timestamp > response.body[k].timestamp
              /\ response.body[i].timestamp < response.body[j].timestamp
----------------------------------------------------------------------------
(* Properties of the livability handler, checked under SpecLivability *)

\* the rows of a table in the default box around (lat, lon) that are at most
\* `hours` hours old
WindowOf(table, lat, lon, hours) ==
    {r \in table : /\ r.latitude >= lat - DefaultRadius
                   /\ r.latitude <= lat + DefaultRadius
                   /\ r.longitude >= lon - DefaultRadius
                   /\ r.longitude <= lon + DefaultRadius
                   /\ clock - r.timestamp <= hours}

\* the metric a reading contributes to the average of its category
MetricOf(r, kind) ==
    CASE kind = "airQuality" -> r.aqi
      [] kind = "waterSecurity" -> r.waterStressLevel
      [] kind = "greenSpace" -> VegCoverage(r)

RECURSIVE TotalOf(_, _)
TotalOf(rows, kind) ==
    IF rows = {} THEN 0
    ELSE LET r == CHOOSE x \in rows : TRUE
         IN  MetricOf(r, kind) + TotalOf(rows \ {r}, kind)

\* the value of a step function at the mean total / n: mean <= c exactly if
\* total <= c * n, and mean >= c exactly if total >= c * n
RECURSIVE MeanUpTo(_, _, _, _)
MeanUpTo(total, n, bounds, vals) ==
    IF bounds = <<>> THEN Head(vals)
    ELSE IF total <= Head(bounds) * n THEN Head(vals)
    ELSE MeanUpTo(total, n, Tail(bounds), Tail(vals))

RECURSIVE MeanFrom(_, _, _, _)
MeanFrom(total, n, bounds, vals) ==
    IF bounds = <<>> THEN Head(vals)
    ELSE IF total >= Head(bounds) * n THEN Head(vals)
    ELSE MeanFrom(total, n, Tail(bounds), Tail(vals))

\* the scores of the means of the readings of the last 24 hours
ScoresOfWindow(lat, lon) ==
    LET air == WindowOf(airQualityData, lat, lon, 24)
        water == WindowOf(waterSecurityData, lat, lon, 24)
        green == WindowOf(greenSpaceData, lat, lon, 24)
        a == MeanUpTo(TotalOf(air, "airQuality"), Cardinality(air),
                      <<0, 50, 100, 200, 300>>, <<100, 85, 60, 35, 15, 5>>)
        w == MeanUpTo(TotalOf(water, "waterSecurity"), Cardinality(water),
                      <<0, 20, 40, 60, 80>>, <<100, 80, 60, 40, 20, 10>>)
        g == MeanFrom(TotalOf(green, "greenSpace"), Cardinality(green),
                      <<80, 60, 40, 20, 10>>, <<100, 80, 60, 40, 20, 10>>)
    IN  [airQualityScore |-> a, waterSecurityScore |-> w, greenSpaceScore |-> g,
         overallScore |-> (40 * a + 35 * w + 25 * g + 50) \div 100]

SomeCategoryEmpty(lat, lon) ==
    \/ WindowOf(airQualityData, lat, lon, 24) = {}
    \/ WindowOf(waterSecurityData, lat, lon, 24) = {}
    \/ WindowOf(greenSpaceData, lat, lon, 24) = {}

SameScores(x, y) ==
    /\ x.airQualityScore = y.airQualityScore
    /\ x.waterSecurityScore = y.waterSecurityScore
    /\ x.greenSpaceScore = y.greenSpaceScore
    /\ x.overallScore = y.overallScore

\* C13: GET /api/livability/{lat}/{lon} answers 404, storing nothing, exactly
\* when one of the three categories has no reading in the default box that
\* is at most 24 hours old; otherwise the handler goes on to store one new
\* score whose sub-scores and overall score are the scorer's result on the
\* means of those readings, and answers 200 with that stored score.
C13_LivabilityFromLastDay ==
    [][/\ (response'.kind = "livability" /\ response'.status = 404) =>
            /\ SomeCategoryEmpty(response'.lat, response'.lon)
            /\ UNCHANGED <<tables, requests>>
       /\ \A req \in requests' \ requests : req.kind = "livability" =>
            /\ ~SomeCategoryEmpty(req.lat, req.lon)
            /\ Len(req.todo) = 1
            /\ req.todo[1].table = "livabilityScores"
            /\ SameScores(req.todo[1].data, ScoresOfWindow(req.lat, req.lon))
            /\ UNCHANGED tables
       /\ (response'.kind = "livability" /\ response'.status = 200) =>
            \E req \in requests \ requests' :
               /\ req.kind = "livability"
               /\ req.lat = response'.lat /\ req.lon = response'.lon
               /\ Cardinality(livabilityScores' \ livabilityScores) = 1
               /\ livabilityScores \subseteq livabilityScores'
               /\ \A storedScore \in livabilityScores' \ livabilityScores :
                     /\ SameScores(storedScore, req.todo[1].data)
                     /\ storedScore.latitude = req.lat
                     /\ storedScore.longitude = req.lon
                     /\ Len(response'.body) = 1
                     /\ SameScores(response'.body[1], storedScore)
                     /\ response'.body[1].id = storedScore.id
               /\ UNCHANGED <<airQualityData, waterSecurityData, greenSpaceData,
                              environmentalAlerts>>]_vars

\* a score has been stored and returned for a place whose air-quality
\* readings of the last day differ, one of them exactly 24 hours old
C13_Witness ==
    /\ response.kind = "livability" /\ response.status = 200
    /\ \E storedScore \in livabilityScores :
          /\ storedScore.id = response.body[1].id
          /\ SameScores(storedScore, ScoresOfWindow(response.lat, response.lon))
    /\ \E x, y \in WindowOf(airQualityData, response.lat, response.lon, 24) :
          /\ x.aqi # y.aqi
          /\ clock - x.timestamp = 24

\* 404 while one category has a reading of the last day and another has none
C13_WitnessPartial ==
    /\ response.kind = "livability" /\ response.status = 404
    /\ WindowOf(airQualityData, response.lat, response.lon, 24) # {}
    /\ WindowOf(greenSpaceData, response.lat, response.lon, 24) = {}

\* 404 while every category has readings in the box, all older than a day
C13_WitnessExpired ==
    /\ response.kind = "livability" /\ response.status = 404
    /\ WindowOf(airQualityData, response.lat, response.lon, 30) # {}
    /\ WindowOf(waterSecurityData, response.lat, response.lon, 30) # {}
    /\ WindowOf(greenSpaceData, response.lat, response.lon, 30) # {}
    /\ WindowOf(airQualityData, response.lat, response.lon, 24) = {}

----------------------------------------------------------------------------
(* Properties of the validation, checked under SpecValidation *)

\* the response just sent answers a request of the model's paths
AnsweredPath == response.path # <<>>

FiniteCoordinates(path) ==
    parseFloat(path[1]).k = "fin" /\ parseFloat(path[2]).k = "fin"

\* C14: a request whose latitude or longitude segment does not parse to a
\* finite number (text that is no number, NaN, +Infinity or -Infinity) is
\* answered with status 400, and not with the result of a query.
C14_NonFiniteRejected ==
    (AnsweredPath /\ ~FiniteCoordinates(response.path)) => response.status = 400

\* what the handlers do: a segment that parses to NaN is answered with 400,
\* an empty body and no stored row; every other request goes on
C14_OnlyNaNRejected ==
    AnsweredPath =>
        (response.status = 400 <=>
            (isNaN(parseFloat(response.path[1])) \/ isNaN(parseFloat(response.path[2]))))

\* a request with a NaN segment has been rejected
C14_WitnessRejected ==
    /\ AnsweredPath /\ response.status = 400
    /\ response.path = <<"0", "NaN">>

\* a request with an infinite latitude has been answered with a query's result
C14_WitnessInfinite ==
    /\ AnsweredPath /\ response.status = 200
    /\ response.path = <<"Infinity", "0">>
    /\ airQualityData # {}

----------------------------------------------------------------------------
(* Properties of the alert generation, checked under SpecAlertsApi *)

\* the readings of the default box around (lat, lon) that are at most 6 hours
\* old, most recent first
LastSixHours(lat, lon) ==
    [airQuality |-> OrderByDescTimestamp(WindowOf(airQualityData, lat, lon, 6)),
     waterSecurity |-> OrderByDescTimestamp(WindowOf(waterSecurityData, lat, lon, 6)),
     greenSpace |-> OrderByDescTimestamp(WindowOf(greenSpaceData, lat, lon, 6))]

NoneInLastSixHours(lat, lon) ==
    /\ WindowOf(airQualityData, lat, lon, 6) = {}
    /\ WindowOf(waterSecurityData, lat, lon, 6) = {}
    /\ WindowOf(greenSpaceData, lat, lon, 6) = {}

\* what the evaluator emits for a request at (lat, lon), for an outcome of
\* its text-generation calls
EmittedFor(lat, lon, outcome) ==
    generateAlerts(LastSixHours(lat, lon),
                   [location |-> LocationLabel(lat, lon),
                    latitude |-> lat, longitude |-> lon], outcome)

CategoryRank(alert) ==
    CASE alert.category = "air_quality" -> 1
      [] alert.category = "water_security" -> 2
      [] alert.category = "green_space" -> 3

\* a handler of the alert generation that has stored nothing yet
Generating(req) == req.kind = "alerts-generate" /\ req.stored = <<>>

\* C15: POST /api/alerts/generate/{lat}/{lon} evaluates the readings of the
\* default box that are at most 6 hours old and no others; it stores every
\* emitted alert as a new active record and returns exactly the stored
\* records in emission order (air quality, water security, green space);
\* what it stores does not depend on the alerts already stored; with no
\* reading in the window it stores and returns nothing.
C15_GenerateAlerts ==
    [][/\ \A req \in requests' \ requests : Generating(req) =>
            /\ ~NoneInLastSixHours(req.lat, req.lon)
            /\ \E outcome \in ApiAIOutcomes :
                  req.todo = ItemsOf("environmentalAlerts",
                                     EmittedFor(req.lat, req.lon, outcome))
            /\ \A i \in 1..Len(req.todo), j \in 1..Len(req.todo) :
                  i <= j => CategoryRank(req.todo[i].data)
                                <= CategoryRank(req.todo[j].data)
            /\ UNCHANGED tables
       /\ (response'.kind = "alerts-generate" /\ response'.body = <<>>) =>
            /\ \E outcome \in ApiAIOutcomes :
                  EmittedFor(response'.lat, response'.lon, outcome) = <<>>
            /\ UNCHANGED <<tables, requests>>
       /\ \A req \in requests \ requests' : req.kind = "alerts-generate" =>
            LET stored == StoredRow(Head(req.todo).data,
                                    <<req.serial, Len(req.stored) + 1>>, clock)
            IN  /\ stored \notin environmentalAlerts
                /\ \A a \in environmentalAlerts : a.id # stored.id
                /\ stored.isActive
                /\ environmentalAlerts' = environmentalAlerts \cup {stored}
                /\ UNCHANGED <<airQualityData, waterSecurityData, greenSpaceData,
                               livabilityScores>>
                /\ \A i \in 1..Len(req.stored) :
                      req.stored[i] \in environmentalAlerts
                /\ IF Len(req.todo) = 1
                   THEN /\ response'.kind = "alerts-generate"
                        /\ response'.status = 200
                        /\ response'.body = Append(req.stored, stored)
                        /\ \A r \in requests' : r.serial # req.serial
                   ELSE /\ response' = NoResponse
                        /\ \E r \in requests' :
                              /\ r.serial = req.serial
                              /\ r.stored = Append(req.stored, stored)
                              /\ r.todo = Tail(req.todo)
       /\ (response'.kind = "alerts-generate" /\ response'.body # <<>>) =>
            \E req \in requests \ requests' :
               req.kind = "alerts-generate" /\ Len(req.todo) = 1]_vars

SameAlert(a, b) ==
    /\ a.type = b.type /\ a.category = b.category /\ a.title = b.title
    /\ a.value = b.value /\ a.severity = b.severity
    /\ a.latitude = b.latitude /\ a.longitude = b.longitude

\* a second call over unchanged readings has stored again, under new ids,
\* the alerts of all three categories that the first call stored
C15_Witness ==
    /\ response.kind = "alerts-generate"
    /\ Len(response.body) >= 3
    /\ CategoryRank(response.body[1]) = 1
    /\ CategoryRank(response.body[Len(response.body)]) = 3
    /\ \A i \in 1..Len(response.body) :
          /\ response.body[i] \in environmentalAlerts
          /\ \E b \in environmentalAlerts :
                b.id # response.body[i].id /\ SameAlert(b, response.body[i])

\* a call has stored and returned nothing while the box holds readings that
\* are more than 6 hours old
C15_WitnessExpired ==
    /\ response.kind = "alerts-generate" /\ response.body = <<>>
    /\ environmentalAlerts = {}
    /\ NoneInLastSixHours(response.lat, response.lon)
    /\ WindowOf(airQualityData, response.lat, response.lon, 12) # {}
    /\ \E r \in airQualityData : r.aqi > 150

\* a call has evaluated readings that are exactly 6 hours old
C15_WitnessSixHours ==
    /\ response.kind = "alerts-generate" /\ response.body # <<>>
    /\ \A r \in WindowOf(airQualityData, response.lat, response.lon, 6) :
          clock - r.timestamp = 6

----------------------------------------------------------------------------
(* Properties of the dashboard, checked under SpecDashboard *)

Dashboarded == response.kind = "dashboard" /\ response.status = 200

ActiveAlerts == {a \in environmentalAlerts : a.isActive}

\* a comes strictly before b in the listing of the alerts
AlertBefore(a, b) ==
    \/ SeverityGreater(a, b)
    \/ SeverityEqual(a, b) /\ a.timestamp > b.timestamp

Least(m, n) == IF m < n THEN m ELSE n

Elements(array) == {array[i] : i \in 1..Len(array)}

\* array holds the first `limit` of rows, without repetition, by an order
\* given as Before(a, b)
FirstAlerts(array, rows, limit) ==
    /\ Len(array) = Least(limit, Cardinality(rows))
    /\ Elements(array) \subseteq rows
    /\ Cardinality(Elements(array)) = Len(array)
    /\ \A i \in 1..Len(array), j \in 1..Len(array) :
          i < j => ~AlertBefore(array[j], array[i])
    /\ \A a \in rows \ Elements(array), i \in 1..Len(array) :
          ~AlertBefore(a, array[i])

FirstPoints(array, rows, limit) ==
    /\ Len(array) = Least(limit, Cardinality(rows))
    /\ Elements(array) \subseteq rows
    /\ Cardinality(Elements(array)) = Len(array)
    /\ \A i \in 1..Len(array), j \in 1..Len(array) :
          i < j => array[i].timestamp >= array[j].timestamp
    /\ \A r \in rows \ Elements(array), i \in 1..Len(array) :
          r.timestamp <= array[i].timestamp

\* the current metric is the first historical point, or null
CurrentIsFirst(current, array, rows) ==
    /\ current.present <=> rows # {}
    /\ current.present => Len(array) > 0 /\ current.v = array[1]

\* the stored scores within 0.01 degrees
ScoresNear(lat, lon) ==
    {s \in livabilityScores : /\ s.latitude - lat <= 1 /\ lat - s.latitude <= 1
                              /\ s.longitude - lon <= 1 /\ lon - s.longitude <= 1}

C16_WitnessNoScore ==
    /\ Dashboarded
    /\ ~response.body[1].livabilityScore.present
    /\ livabilityScores # {}
    /\ response.body[1].currentMetrics.airQuality.present

C16_WitnessNoMetric ==
    /\ Dashboarded
    /\ ~response.body[1].currentMetrics.airQuality.present
    /\ ~response.body[1].currentMetrics.greenSpace.present
    /\ response.body[1].historicalData.airQuality = <<>>
    /\ InBox(airQualityData, response.lat, response.lon, DefaultRadius) # {}

----------------------------------------------------------------------------
(* Further properties of the scorer, checked under SpecScorer *)

\* C17: a sub-score of a metric that is NaN, +Infinity or -Infinity is the
\* worst value of that metric: 5 for air quality, 10 for water security and
\* 10 for green space.
C17_NonFiniteIsWorst ==
    Scored =>
        /\ metrics.airQuality \in NonFinite => result.airQualityScore = 5
        /\ metrics.waterSecurity \in NonFinite => result.waterSecurityScore = 10
        /\ metrics.greenSpace \in NonFinite => result.greenSpaceScore = 10

\* what the scorer does with a metric that is no finite number: NaN fails
\* every comparison and gets the worst value; an infinite metric gets the
\* value of the end of the scale it lies beyond, which is the best value
\* for -Infinity of AQI or water stress and for +Infinity of coverage
C17_NonFiniteScores ==
    Scored =>
        /\ metrics.airQuality = NaN => result.airQualityScore = 5
        /\ metrics.airQuality = PosInf => result.airQualityScore = 5
        /\ metrics.airQuality = NegInf => result.airQualityScore = 100
        /\ metrics.waterSecurity = NaN => result.waterSecurityScore = 10
        /\ metrics.waterSecurity = PosInf => result.waterSecurityScore = 10
        /\ metrics.waterSecurity = NegInf => result.waterSecurityScore = 100
        /\ metrics.greenSpace = NaN => result.greenSpaceScore = 10
        /\ metrics.greenSpace = PosInf => result.greenSpaceScore = 100
        /\ metrics.greenSpace = NegInf => result.greenSpaceScore = 10

\* -Infinity as AQI has been scored
C17_WitnessNegInf == Scored /\ metrics.airQuality = NegInf

FiniteMetrics ==
    /\ metrics.airQuality.k = "fin"
    /\ metrics.waterSecurity.k = "fin"
    /\ metrics.greenSpace.k = "fin"

\* n clamped to lo..hi
Clamped(n, lo, hi) == IF n < lo THEN lo ELSE IF n > hi THEN hi ELSE n

\* C18: for every triple of finite metrics calculateLivabilityScore returns
\* a result, and each sub-score is the sub-score of the metric clamped to
\* its range: AQI to 0..500, water stress to 0..100, coverage to 0..100.
C18_OutOfRangeClamped ==
    /\ (pcScorer = "calc" /\ FiniteMetrics) => ENABLED CalculateLivabilityScore
    /\ (Scored /\ FiniteMetrics) =>
        /\ result.airQualityScore =
             StepUpTo(Fin(Clamped(metrics.airQuality.v, 0, 500)),
                      <<0, 50, 100, 200, 300>>, <<100, 85, 60, 35, 15, 5>>)
        /\ result.waterSecurityScore =
             StepUpTo(Fin(Clamped(metrics.waterSecurity.v, 0, 100)),
                      <<0, 20, 40, 60, 80>>, <<100, 80, 60, 40, 20, 10>>)
        /\ result.greenSpaceScore =
             StepFrom(Fin(Clamped(metrics.greenSpace.v, 0, 100)),
                      <<80, 60, 40, 20, 10>>, <<100, 80, 60, 40, 20, 10>>)

\* a triple with every metric outside its range has been scored
C18_Witness ==
    /\ Scored
    /\ metrics.airQuality.k = "fin" /\ metrics.airQuality.v > 500
    /\ metrics.waterSecurity.k = "fin" /\ metrics.waterSecurity.v < 0
    /\ metrics.greenSpace.k = "fin" /\ metrics.greenSpace.v > 100
    /\ result.airQualityScore = 5
    /\ result.waterSecurityScore = 100
    /\ result.greenSpaceScore = 100

C18_WitnessBelow ==
    /\ Scored
    /\ metrics.airQuality.k = "fin" /\ metrics.airQuality.v < 0
    /\ metrics.waterSecurity.k = "fin" /\ metrics.waterSecurity.v > 100
    /\ metrics.greenSpace.k = "fin" /\ metrics.greenSpace.v < 0

\* a <= b on JavaScript numbers
NumberLeq(a, b) ==
    /\ a.k # "nan" /\ b.k # "nan"
    /\ \/ a.k = "ninf"
       \/ b.k = "pinf"
       \/ a.k = "fin" /\ b.k = "fin" /\ a.v <= b.v

\* C19: normalizeAirQuality never increases as the AQI increases: the
\* sub-score of an AQI is at least that of every AQI above it and at most
\* that of every AQI below it; and it is one of 100, 85, 60, 35, 15, 5.
C19_AirQualityMonotone ==
    Scored =>
        /\ result.airQualityScore \in {100, 85, 60, 35, 15, 5}
        /\ \A b \in AqiInputs :
              /\ NumberLeq(metrics.airQuality, b) =>
                    result.airQualityScore >= normalizeAirQuality(b)
              /\ NumberLeq(b, metrics.airQuality) =>
                    normalizeAirQuality(b) >= result.airQualityScore

\* an AQI between two boundaries has been scored, below the score of a
\* smaller AQI and above that of a larger one
C19_Witness ==
    /\ Scored
    /\ metrics.airQuality.k = "fin"
    /\ \E a \in AqiInputs, b \in AqiInputs :
          /\ NumberLeq(a, metrics.airQuality) /\ NumberLeq(metrics.airQuality, b)
          /\ normalizeAirQuality(a) > result.airQualityScore
          /\ result.airQualityScore > normalizeAirQuality(b)


\* the name of the weakest factor of a result: the first, in the order air
\* quality, water security, green space, of those with the least sub-score
WeakestName(r) ==
    IF r.airQualityScore <= r.waterSecurityScore
          /\ r.airQualityScore <= r.greenSpaceScore
    THEN "air quality"
    ELSE IF r.waterSecurityScore <= r.greenSpaceScore THEN "water security"
    ELSE "green space"

\* the blocks of the categories whose sub-score is below 60, in their order
BlocksBelowSixty(r) ==
    (IF r.airQualityScore < 60 THEN airQualityRecommendations ELSE <<>>)
    \o (IF r.waterSecurityScore < 60 THEN waterSecurityRecommendations ELSE <<>>)
    \o (IF r.greenSpaceScore < 60 THEN greenSpaceRecommendations ELSE <<>>)

\* C20: generateRecommendations returns the air-quality block exactly if
\* airQualityScore < 60, then the water-security block exactly if
\* waterSecurityScore < 60, then the green-space block exactly if
\* greenSpaceScore < 60, followed by at most one more line; that line is the
\* "Priority focus" line of the weakest factor, the first of the factors
\* with the least sub-score; and the call changes nothing but what it returns.
C20_RecommendationRules ==
    [][pcScorer' = "recommended" =>
          LET blocks == BlocksBelowSixty(result)
              n == Len(blocks)
          IN  /\ Len(recommendations') \in {n, n + 1}
              /\ SubSeq(recommendations', 1, n) = blocks
              /\ Len(recommendations') = n + 1 =>
                    recommendations'[n + 1] = PriorityFocus(WeakestName(result))
              /\ UNCHANGED <<metrics, result, score, category, notScorerVars>>]_vars

\* the recommendations of a result whose air-quality and water-security
\* sub-scores are equal and the least: all three blocks, and the priority
\* line of air quality
C20_Witness ==
    /\ pcScorer = "recommended"
    /\ result.airQualityScore = result.waterSecurityScore
    /\ result.airQualityScore < 50
    /\ result.greenSpaceScore > result.airQualityScore
    /\ result.greenSpaceScore < 60
    /\ Len(recommendations) = 11
    /\ recommendations[11] = PriorityFocus("air quality")

\* the recommendations of a scored triple whose water-security and
\* green-space sub-scores are equal and the least
C20_WitnessScored ==
    /\ pcScorer = "recommended"
    /\ metrics # NoMetrics
    /\ result.waterSecurityScore = result.greenSpaceScore
    /\ result.waterSecurityScore < result.airQualityScore
    /\ Len(recommendations) > 0
    /\ recommendations[Len(recommendations)] = PriorityFocus("water security")

\* recommendations without a priority line, and none at all
C20_WitnessNoPriority ==
    /\ pcScorer = "recommended"
    /\ result.airQualityScore = 59
    /\ recommendations = airQualityRecommendations

----------------------------------------------------------------------------
(* Properties of the data source, checked under SpecSource *)

AirSources == {"nasa_omi", "nasa_tempo"}
WaterSources == {"nasa_grace", "nasa_swot"}
GreenSources == {"nasa_landsat", "nasa_modis"}

\* the primary metric of a reading is inside the range of its category, the
\* vegetation index allowed to be as much as `over` above 1
MetricInRange(r, over) ==
    /\ r.source \in AirSources => r.aqi >= 0 /\ r.aqi <= 50000
    /\ r.source \in WaterSources =>
            r.waterStressLevel >= 0 /\ r.waterStressLevel <= 10000
    /\ r.source \in GreenSources => r.ndvi >= 0 - 10000 /\ r.ndvi <= 10000 + over

\* C21 (as stated): every reading a fetch method returns has its primary
\* metric inside its documented range: the air-quality index in 0..500, the
\* water-stress level in 0..100 and the vegetation index in -1..1.
\* Violated: fetchMODISData adds its jitter after the clamp of calculateNDVI.
C21_PrimaryMetricInRange ==
    \A i \in 1..Len(emitted) : MetricInRange(emitted[i], 0)

\* C21 (what the code keeps): the index and the water-stress level are in
\* range for every source, the vegetation index of Landsat is in -1..1, and
\* the one of MODIS is at least -1 and less than 1.05
C21_InRangeButModis ==
    \A i \in 1..Len(emitted) :
        /\ MetricInRange(emitted[i], 499)
        /\ emitted[i].source # "nasa_modis" => MetricInRange(emitted[i], 0)

\* fetchMODISData has returned a vegetation index above 1
C21_WitnessAboveOne ==
    /\ fetcher.name = "fetchMODISData"
    /\ emitted[1].ndvi > 10000

\* C22: fetchTEMPOData returns readings exactly for the coordinates with
\* 25 <= latitude <= 70 and -180 <= longitude <= -40 and an empty list for
\* every other coordinate; each of the other five fetch methods returns at
\* least one reading for every coordinate.
C22_TempoCoverage ==
    fetcher.name # "none" =>
        IF fetcher.name = "fetchTEMPOData"
        THEN Len(emitted) > 0 <=>
                /\ 2500 <= fetcher.lat /\ fetcher.lat <= 7000
                /\ 0 - 18000 <= fetcher.lon /\ fetcher.lon <= 0 - 4000
        ELSE Len(emitted) >= 1

\* fetchTEMPOData has returned readings for a corner of its box
C22_Witness ==
    /\ fetcher = [name |-> "fetchTEMPOData", lat |-> 2500, lon |-> 0 - 18000]
    /\ Len(emitted) > 0

\* fetchTEMPOData has returned nothing for a place a hundredth of a degree
\* outside its box
C22_WitnessOutside ==
    /\ fetcher = [name |-> "fetchTEMPOData", lat |-> 4000, lon |-> 0 - 3999]
    /\ emitted = <<>>

\* another fetch method has returned a reading for a place outside the box
C22_WitnessGlobal ==
    /\ fetcher = [name |-> "fetchSWOTData", lat |-> 0, lon |-> 0]
    /\ Len(emitted) = 1

\* fetchTEMPOData has returned for a place inside its box
TempoReturned ==
    /\ fetcher.name = "fetchTEMPOData"
    /\ isNorthAmerica(fetcher.lat, fetcher.lon)

\* C26 (as stated): inside its coverage and at every hour of the day,
\* fetchTEMPOData returns exactly 12 readings in chronological order: the
\* timestamps increase strictly along the list and none is later than the
\* current time.
\* Violated before 11 o'clock: the hours before midnight get today's date.
C26_TempoChronological ==
    TempoReturned =>
        /\ Len(emitted) = 12
        /\ \A i \in 1..(Len(emitted) - 1) :
                emitted[i].timestamp < emitted[i + 1].timestamp
        /\ \A i \in 1..Len(emitted) : emitted[i].timestamp <= now

\* C26 (what the code keeps): 12 readings, the k-th of them at the hour of
\* the day that was current 12 - k hours ago, each on today's date; from 11
\* o'clock on these are the last 12 hours in increasing order
C26_TempoHoursOfToday ==
    TempoReturned =>
        /\ Len(emitted) = 12
        /\ \A k \in 1..Len(emitted) :
                emitted[k].timestamp =
                    (now - (now % 24)) + ((now - (12 - k)) % 24)
        /\ now % 24 >= 11 =>
                \A k \in 1..Len(emitted) : emitted[k].timestamp = now - (12 - k)

\* at 3 o'clock the list holds a timestamp of 23 o'clock of the same day
C26_WitnessFuture ==
    /\ TempoReturned
    /\ now % 24 = 3
    /\ \E i \in 1..Len(emitted) : emitted[i].timestamp = now + 20

----------------------------------------------------------------------------
(* Properties of Promise.all and its callers, checked under SpecJoin *)

\* the readings of the source of a fetch method for the caller c
SourceReadings(c, op) ==
    CASE op = "fetchAuraOMIData" -> fetchAuraOMIData(c.lat, c.lon, c.cond)
      [] op = "fetchTEMPOData" -> fetchTEMPOData(c.lat, c.lon, c.cond)
      [] op = "fetchGRACEData" -> fetchGRACEData(c.lat, c.lon, c.cond)
      [] op = "fetchSWOTData" -> fetchSWOTData(c.lat, c.lon, c.cond)
      [] op = "fetchLandsatData" -> fetchLandsatData(c.lat, c.lon, c.cond)
      [] op = "fetchMODISData" -> fetchMODISData(c.lat, c.lon, c.cond)

\* what a source contributes: nothing if its fetch method failed
Contribution(op) ==
    IF settled[op].threw THEN <<>> ELSE SourceReadings(caller, op)

Fetching == caller.kind = "fetchAllEnvironmentalData"

\* C23: when fetch methods fail, fetchAllEnvironmentalData still returns,
\* with the readings of every source that did not fail and an empty list in
\* the place of each that did; it is never aborted.
C23_FailedSourceContributesNothing ==
    Fetching /\ joined.state # "none" =>
        /\ joined.state = "fulfilled"
        /\ joined.value =
              [airQuality |-> Contribution("fetchAuraOMIData")
                                  \o Contribution("fetchTEMPOData"),
               waterSecurity |-> Contribution("fetchGRACEData")
                                     \o Contribution("fetchSWOTData"),
               greenSpace |-> Contribution("fetchLandsatData")
                                  \o Contribution("fetchMODISData")]

\* the fetch has returned after fetchGRACEData failed inside the box of
\* TEMPO: 13 air-quality readings, the water reading of SWOT alone, and both
\* green-space readings
C23_Witness ==
    /\ Fetching
    /\ joined.state = "fulfilled"
    /\ settled["fetchGRACEData"].threw
    /\ Len(joined.value.airQuality) = 13
    /\ Len(joined.value.waterSecurity) = 1
    /\ joined.value.waterSecurity[1].source = "nasa_swot"
    /\ Len(joined.value.greenSpace) = 2

\* the sub-operations settled in the order in which they were issued
InOrderOfIssue == order = OpsOf(caller.kind)

\* what the caller returns when each sub-operation answers from the
\* database as it is
Together ==
    CASE caller.kind = "fetchAllEnvironmentalData" ->
            fetchAllEnvironmentalData(caller.lat, caller.lon, caller.cond)
      [] caller.kind = "getRecentEnvironmentalData" ->
            getRecentEnvironmentalData(caller.lat, caller.lon, caller.hours)
      [] caller.kind = "dashboard" ->
            [envData |->
                getRecentEnvironmentalData(caller.lat, caller.lon, caller.hours),
             livabilityScore |->
                getLivabilityScoreByLocation(caller.lat, caller.lon),
             alerts |-> getActiveAlerts]

NoneThrew == \A op \in DOMAIN settled : ~settled[op].threw

C24_WitnessFetch ==
    /\ Fetching
    /\ joined.state = "fulfilled"
    /\ order = [i \in 1..6 |-> FetchOps[7 - i]]

\* the queries of the last six hours have returned, leaving older rows out
C24_WitnessRecent ==
    /\ caller.kind = "getRecentEnvironmentalData"
    /\ joined.state = "fulfilled"
    /\ ~InOrderOfIssue
    /\ Len(joined.value.waterSecurity) > 0
    /\ Len(joined.value.waterSecurity) <
            Len(getWaterSecurityDataByLocation(caller.lat, caller.lon, DefaultRadius))

----------------------------------------------------------------------------
(* Further properties of the evaluator, checked under SpecAlerts *)

\* the alerts emitted so far whose recommendations come from the service
LevelAlerts ==
    WithTitle(alerts, AirLevelTitles \cup StressTitles \cup GreenTitles)

\* the calls of the service made so far for a category
CallsFor(cat) == SelectSeq(aiCalls, LAMBDA c : c.category = cat)

C25_WitnessNoCall ==
    /\ pcAlerts = "done"
    /\ Len(alerts) > 0
    /\ aiCalls = <<>>

\* the alerts with a title of titles that a rule emits for a reading alone
AirAlertsOf(aqi) ==
    WithTitle(analyzeAirQuality(<<AirReading(aqi)>>, envData.context, "rejects").alerts,
              AirLevelTitles)
WaterAlertsOf(stress, flood, titles) ==
    WithTitle(analyzeWaterSecurity(<<WaterReading(stress, flood)>>, envData.context,
                                   "rejects").alerts, titles)
GreenAlertsOf(coverage) ==
    WithTitle(analyzeGreenSpace(<<GreenReading(0, Some(coverage))>>, envData.context,
                                "rejects").alerts, GreenTitles)

\* no alert of the worse reading has a lower severity than one of the
\* better reading; sameType compares only alerts of one type
NotLower(better, worse, sameType) ==
    \A i \in 1..Len(better), j \in 1..Len(worse) :
        (sameType => better[i].type = worse[j].type) =>
            ~SeverityGreater(better[i], worse[j])

\* the severities of the alerts emitted for the readings of the state,
\* against those of every worse reading
MonotoneSeverity(sameType) ==
    /\ AirAnalyzed =>
          \A b \in AqiReadings :
              b >= envData.airQuality[1].aqi =>
                  NotLower(WithTitle(alerts, AirLevelTitles), AirAlertsOf(b), sameType)
    /\ WaterAnalyzed =>
          /\ \A b \in StressReadings :
                b >= envData.waterSecurity[1].waterStressLevel =>
                    NotLower(WithTitle(alerts, StressTitles),
                             WaterAlertsOf(b, Null, StressTitles), sameType)
          /\ \A b \in FloodReadings :
                /\ b.present /\ envData.waterSecurity[1].floodRisk.present
                /\ b.v >= envData.waterSecurity[1].floodRisk.v
                => NotLower(WithTitle(alerts, FloodTitles),
                            WaterAlertsOf(0, b, FloodTitles), sameType)
    /\ GreenAnalyzed =>
          \A b \in CoverageReadings :
              b.present /\ b.v # 0 /\ b.v <= VegCoverage(envData.greenSpace[1]) =>
                  NotLower(WithTitle(alerts, GreenTitles), GreenAlertsOf(b.v), sameType)

\* C27 (as stated): within each rule the severity never falls as the reading
\* gets worse (a higher AQI, water stress or flood risk, a lower coverage),
\* across the boundary between warning and danger as well.
\* Violated by the air-quality level rule and by the green-space rule.
C27_SeverityMonotone == MonotoneSeverity(FALSE)

\* C27 (what the code keeps): within the warning band and within the danger
\* band of each rule the severity never falls as the reading gets worse; for
\* water stress and flood risk it does not fall across the boundary either
C27_MonotoneWithinBand ==
    /\ MonotoneSeverity(TRUE)
    /\ WaterAnalyzed =>
          /\ \A b \in StressReadings :
                b >= envData.waterSecurity[1].waterStressLevel =>
                    NotLower(WithTitle(alerts, StressTitles),
                             WaterAlertsOf(b, Null, StressTitles), FALSE)
          /\ \A b \in FloodReadings :
                /\ b.present /\ envData.waterSecurity[1].floodRisk.present
                /\ b.v >= envData.waterSecurity[1].floodRisk.v
                => NotLower(WithTitle(alerts, FloodTitles),
                            WaterAlertsOf(0, b, FloodTitles), FALSE)

\* a warning for an AQI of 149 with a severity above that of the danger
\* alert for 150
C27_WitnessAir ==
    /\ AirAnalyzed
    /\ envData.airQuality[1].aqi = 149
    /\ \E i \in 1..Len(alerts) :
          /\ alerts[i].type = "warning" /\ alerts[i].title \in AirLevelTitles
          /\ SeverityGreater(alerts[i], AirAlertsOf(150)[1])

\* a danger alert for a coverage of 15 with severity 0
C27_WitnessGreen ==
    /\ GreenAnalyzed
    /\ \E i \in 1..Len(alerts) :
          /\ alerts[i].type = "danger" /\ alerts[i].category = "green_space"
          /\ alerts[i].value = 15
          /\ alerts[i].severity.n = 0
          /\ SeverityGreater(GreenAlertsOf(16)[1], alerts[i])

\* the alerting decisions of a list of alerts: every field but the
\* recommendations (value stands for the message, which quotes it)
Decisions(list) ==
    [i \in 1..Len(list) |-> [list[i] EXCEPT !.recommendations = "any"]]

\* C28: the outcome of the text-generation calls does not influence the
\* alerting decisions.  The alerts a run of generateAlerts has emitted, the
\* calls of which ended in any way, are those of the run on the same
\* readings whose calls all throw, and so those of every other run: as many,
\* in the same order, with the same type, category, title, message,
\* location, severity, isActive and actionable; only the recommendations may
\* differ.
C28_OutcomeDoesNotInfluence ==
    pcAlerts = "done" =>
        Decisions(alerts) =
            Decisions(generateAlerts(envData, envData.context, "rejects"))

\* a run with a call that threw, one that answered without the fields asked
\* for and one that answered as asked has emitted its five alerts, whose
\* recommendations differ from those of a run whose calls all throw
C28_Witness ==
    /\ pcAlerts = "done"
    /\ Len(alerts) = 5
    /\ {aiCalls[i].outcome : i \in 1..Len(aiCalls)} =
            {"rejects", "other_json", "schema_json"}
    /\ alerts # generateAlerts(envData, envData.context, "rejects")

----------------------------------------------------------------------------
(* Properties of the handlers with failing inserts, checked under          *)
(* SpecFailures                                                            *)

ErrorStatus == {400, 404, 500}

\* how many rows the handler of number serial has in the tables
RowsStoredBy(serial) ==
    Cardinality({r \in airQualityData : r.id[1] = serial})
      + Cardinality({r \in waterSecurityData : r.id[1] = serial})
      + Cardinality({r \in greenSpaceData : r.id[1] = serial})
      + Cardinality({r \in livabilityScores : r.id[1] = serial})
      + Cardinality({r \in environmentalAlerts : r.id[1] = serial})

\* C29 (as stated): a request that ends with status 400, 404 or 500 leaves
\* every table unchanged: the answering step stores nothing, and no row of
\* the request that ends remains stored.
\* Violated: an insert that fails after others of the loop have succeeded.
C29_ErrorLeavesNoRecord ==
    [][response'.status \in ErrorStatus =>
          /\ tables' = tables
          /\ \A req \in requests \ requests' : RowsStoredBy(req.serial)' = 0]_vars

\* C29 (what the code keeps): the step that answers 400, 404 or 500 stores
\* nothing and removes nothing; the rows the request stored before its
\* failing insert all remain
C29_ErrorKeepsEarlierRows ==
    [][response'.status \in ErrorStatus =>
          /\ tables' = tables
          /\ \A req \in requests \ requests' :
                RowsStoredBy(req.serial)' = Len(req.stored)]_vars

\* the environmental-data handler has answered 500 after storing its
\* air-quality and water rows: they are in the tables, its green-space rows
\* are not
C29_WitnessPartial ==
    /\ response.kind = "environmental-data" /\ response.status = 500
    /\ \E r \in airQualityData : r.id[1] = started
    /\ \E r \in waterSecurityData : r.id[1] = started
    /\ \A r \in greenSpaceData : r.id[1] # started

\* the handler of the alerts has answered 500 with one of its alerts stored
C29_WitnessAlerts ==
    /\ response.kind = "alerts-generate" /\ response.status = 500
    /\ \E r \in environmentalAlerts : r.id[1] = started

\* a handler has answered 404, and one 400
C29_WitnessNotFound == response.status = 404
C29_WitnessInvalid == response.status = 400

----------------------------------------------------------------------------
(* Further properties of the scorer, checked under SpecScorer *)

\* the bands of getLivabilityCategory, from the worst to the best
BandRank(name) ==
    CASE name = "Very Poor" -> 1
      [] name = "Poor" -> 2
      [] name = "Moderate" -> 3
      [] name = "Good" -> 4
      [] name = "Excellent" -> 5

\* the result of the metrics of the state with one of them replaced is no
\* better than the result of the state
NoBetter(worse) ==
    LET other == calculateLivabilityScore(worse)
    IN  /\ other.overallScore <= result.overallScore
        /\ BandRank(getLivabilityCategory(other.overallScore))
              <= BandRank(getLivabilityCategory(result.overallScore))

\* C30: calculateLivabilityScore is monotone.  A higher AQI, a higher water
\* stress or a lower green coverage, the other two metrics kept, never gives
\* a higher overallScore, and so never a better category.
C30_ScoreMonotone ==
    Scored =>
        /\ \A b \in AqiInputs :
              NumberLeq(metrics.airQuality, b) =>
                  NoBetter([metrics EXCEPT !.airQuality = b])
        /\ \A b \in StressInputs :
              NumberLeq(metrics.waterSecurity, b) =>
                  NoBetter([metrics EXCEPT !.waterSecurity = b])
        /\ \A b \in CoverageInputs :
              NumberLeq(b, metrics.greenSpace) =>
                  NoBetter([metrics EXCEPT !.greenSpace = b])

\* a result in the band Good for which a higher water stress alone gives a
\* lower score in a lower band, and a yet higher one a yet lower band
C30_Witness ==
    /\ pcScorer = "done"
    /\ category = "Good"
    /\ metrics.waterSecurity.k = "fin"
    /\ \E b, c \in StressInputs :
          /\ NumberLeq(metrics.waterSecurity, b) /\ NumberLeq(b, c)
          /\ BandRank(getLivabilityCategory(calculateLivabilityScore(
                 [metrics EXCEPT !.waterSecurity = b]).overallScore)) = 3
          /\ BandRank(getLivabilityCategory(calculateLivabilityScore(
                 [metrics EXCEPT !.waterSecurity = c]).overallScore)) < 3

=============================================================================
